---- MODULE Spec2Model ----
(***************************************************************************)
(* sparkrun: the pending-operation ledger (sparkrun/pending_ops.py), the   *)
(* model distribution engine (sparkrun/models/distribute.py,               *)
(* sparkrun/models/sync.py, sparkrun/containers/sync.py), the sudo         *)
(* fallback (sparkrun/orchestration/sudo.py) and the cache checks and      *)
(* download of sparkrun/models/download.py.                                *)
(*                                                                         *)
(* Strings are sequences of one-character strings, so that the string      *)
(* functions of the source (replace, rsplit, lower, "in") are computed     *)
(* and not assumed.                                                        *)
(***************************************************************************)
EXTENDS Integers, Sequences, FiniteSets, TLC

VARIABLES
    now,        \* time.time(), in units of 0.05 s
    faulty,     \* whether filesystem calls may fail with OSError in this run
    uid,        \* the user each process runs as
    alive,      \* which processes exist
    pc,         \* each process's position
    key,        \* (cluster_id, operation) of the call a process is in
    pending,    \* started_at of the info dict a process is writing
    orphan,     \* processes whose open lock file was unlinked under them
    outcome,    \* how a process's last call ended: returned / raised
    exitKind,   \* how the body of the last pending_op scope was left
    dirExists,  \* ~/.cache/sparkrun/pending/ exists
    files,      \* the lock files of the pending directory
    scan,       \* the list_pending_ops call in progress (or the last one)
    step,       \* position of the begin/list/end/list scenario
    who,        \* the process running the scenario, and its (cluster_id, operation)
    fn,         \* the distribution function called ("none" before the call)
    dpc,        \* its position
    arg,        \* its arguments
    rc,         \* what download_model returned
    results,    \* the per-host results of the last fan-out
    fixFailed,  \* the hosts on which the ownership fix was unsuccessful
    failed,     \* the list the function returns
    log,        \* the steps taken, in order
    calls       \* the calls made to the fetch and to the remote executor

ledgerVars == <<now, faulty, uid, alive, pc, key, pending, orphan, outcome,
                exitKind, dirExists, files, scan>>
seqVars == <<step, who>>
distVars == <<fn, dpc, arg, rc, results, fixFailed, failed, log, calls>>

VARIABLES
    spc,            \* position of the run_with_sudo_fallback call
    sarg,           \* its arguments
    attempt,        \* phase 1: the state of the attempt on each host of host_list
    result_map,     \* the {host: result} dict being accumulated
    phase1_failed,  \* failed_hosts: the hosts whose phase-1 result was unsuccessful
    next_fb,        \* index in phase1_failed of the next fallback to start
    in_flight,      \* the hosts on which a fallback execution is running
    fb_runs,        \* how many fallback executions were started on each host
    last,           \* the result of the last attempt made on each host
    still_failed    \* the list returned beside result_map

sudoVars == <<spc, sarg, attempt, result_map, phase1_failed, next_fb, in_flight,
              fb_runs, last, still_failed>>

VARIABLES
    hub,            \* the entry directories present under <cache>/hub
    has_snapshots,  \* the entry has a snapshots/ directory
    refs,           \* the pointer files refs/<name> of the entry
    snaps,          \* the directories snapshots/<name> of the entry and their files
    call,           \* the last is_model_cached / resolve_gguf_path call
    ret,            \* what it returned
    dlpc,           \* position of the download_model call
    dlarg,          \* its arguments
    cached,         \* what its pre-check found
    fetches,        \* the snapshot_download calls it made, and how each ended
    dlret           \* how it ended

cacheVars == <<hub, has_snapshots, refs, snaps, call, ret, dlpc, dlarg, cached,
               fetches, dlret>>
hubVars == <<sudoVars, cacheVars>>

(***************************************************************************)
(* Bounds                                                                  *)
(***************************************************************************)
MaxTime == 2
MaxHosts == 2
MaxIdLen == 4

(***************************************************************************)
(* The pending-operation ledger                                            *)
(***************************************************************************)
Procs == {1, 2}
Users == {"alice", "bob"}

ClusterIds == { <<"a", "/", "b">> }
Tags == { <<"t">>, <<"u">> }
Keys == [cluster_id : ClusterIds, operation : Tags]

ExitKinds == {"return", "early_return", "raise"}

\* str.replace(old, new) for a one-character old
RECURSIVE replace(_, _, _)
replace(s, old, new) ==
    IF s = <<>> THEN <<>>
    ELSE (IF Head(s) = old THEN new ELSE <<Head(s)>>) \o replace(Tail(s), old, new)

_lock_path_without_tag(cluster_id, operation) ==
    replace(cluster_id, "/", <<"_">>) \o <<".json">>

_lock_path(cluster_id, operation) ==
    LET safe_cid == replace(cluster_id, "/", <<"_">>)
    IN  safe_cid \o <<"_">> \o operation \o <<".json">>

Paths == { _lock_path(k.cluster_id, k.operation) : k \in Keys }

Absent == [kind |-> "absent"]
Corrupt == [kind |-> "corrupt"]
\* text that json.loads accepts and that is not an object: [], null, 3, "x"
NotADict == [kind |-> "not_a_dict"]
Info(cluster_id, operation, pid, started_at) ==
    [kind |-> "rec", cluster_id |-> cluster_id, operation |-> operation,
     pid |-> pid, started_at |-> started_at]

\* What a filesystem call may do in this run: TRUE = it succeeds.
FsOutcomes == IF faulty THEN BOOLEAN ELSE {TRUE}

\* os.kill(pid, 0) as called by process `caller`
os_kill(caller, pid) ==
    IF ~alive[pid] THEN "ProcessLookupError"
    ELSE IF caller = pid \/ uid[caller] = uid[pid] THEN "ok"
    ELSE "PermissionError"

_is_pid_alive_always(caller, pid) == TRUE

_is_pid_alive(caller, pid) == os_kill(caller, pid) = "ok"

\* round(x, 1) of a duration of e units of 0.05 s, in tenths of a second
\* (ties to even, as Python's round)
round1(e) ==
    LET q == e \div 2
    IN  IF e % 2 = 0 THEN q
        ELSE IF q % 2 = 0 THEN q ELSE q + 1

elapsed_seconds(started_at, t) == round1(t - started_at)

\* Path.unlink(missing_ok=True): ok = FALSE is an OSError, the file stays
unlink(fs, path, ok) ==
    IF ok THEN [fs EXCEPT ![path] = Absent] ELSE fs

\* the writers whose open file descriptor no longer names a directory entry
Orphaned(fs, fs2) ==
    { p \in Procs : /\ pc[p] \in {"create_w", "enter_w"}
                    /\ LET f == _lock_path(key[p].cluster_id, key[p].operation)
                       IN  fs[f] # Absent /\ fs2[f] = Absent }

remove_pending_op_all(fs, cluster_id, operation, ok) ==
    [f \in DOMAIN fs |-> Absent]

remove_pending_op(fs, cluster_id, operation, ok) ==
    unlink(fs, _lock_path(cluster_id, operation), ok)

pending_op_finally_else(fs, cluster_id, operation, kind, ok) ==
    IF kind = "raise" THEN fs ELSE remove_pending_op(fs, cluster_id, operation, ok)

\* the finally clause of pending_op
pending_op_finally(fs, cluster_id, operation, kind, ok) ==
    remove_pending_op(fs, cluster_id, operation, ok)

Ready(p) == alive[p] /\ pc[p] \in {"idle", "left"}

\* no list_pending_ops call yet; by = 0 is no process
\* deadAtStart: the processes that had exited when the call began
\* and pruned the owners whose stale locks the call has deleted
NoScan == [by |-> 0, phase |-> "none", todo |-> {}, cur |-> <<>>,
           info |-> Absent, ops |-> {}, deadAtStart |-> {}, pruned |-> {}]

Key(c, t) == [cluster_id |-> c, operation |-> t]
NoKey == Key(<<>>, <<>>)
PathOf(k) == _lock_path(k.cluster_id, k.operation)

InitLedger ==
    /\ now = 0
    /\ faulty \in BOOLEAN
    /\ uid \in { u \in [Procs -> Users] : u[1] = "alice" }
    /\ alive = [p \in Procs |-> TRUE]
    /\ pc = [p \in Procs |-> "idle"]
    /\ key = [p \in Procs |-> NoKey]
    /\ pending = [p \in Procs |-> 0]
    /\ orphan = {}
    /\ outcome = [p \in Procs |-> "none"]
    /\ exitKind = [p \in Procs |-> "none"]
    /\ dirExists = FALSE
    /\ files = [f \in Paths |-> Absent]
    /\ scan = NoScan
    /\ step = 0
    /\ who = [pid |-> 0, key |-> NoKey]

(***************************************************************************)
(* create_pending_op: mkdir, build the info dict, open the file for        *)
(* writing (which truncates it), then write the JSON text.                 *)
(***************************************************************************)
\* lines 77-93 up to and including the open() of write_text; wpc is where
\* the caller waits for the write ("create_w": a plain call, "enter_w": the
\* entry of a pending_op scope)
create_open(p, c, t, wpc) ==
    /\ Ready(p)
    /\ \E mk \in (IF dirExists THEN {TRUE} ELSE FsOutcomes), op \in FsOutcomes :
        IF ~dirExists /\ ~mk
        THEN \* d.mkdir raises OSError outside the try: the call raises
             /\ outcome' = [outcome EXCEPT ![p] = "raised"]
             /\ pc' = [pc EXCEPT ![p] = "idle"]
             /\ key' = [key EXCEPT ![p] = NoKey]
             /\ UNCHANGED <<dirExists, files, pending, orphan>>
        ELSE /\ dirExists' = TRUE
             /\ orphan' = orphan \ {p}
             /\ IF op
                THEN /\ files' = [files EXCEPT ![_lock_path(c, t)] = Corrupt]
                     /\ pc' = [pc EXCEPT ![p] = wpc]
                     /\ key' = [key EXCEPT ![p] = Key(c, t)]
                     /\ pending' = [pending EXCEPT ![p] = now]
                     /\ outcome' = [outcome EXCEPT ![p] = "none"]
                ELSE \* OSError from open: logged, the path is returned
                     /\ UNCHANGED <<files, pending>>
                     /\ pc' = [pc EXCEPT ![p] =
                                  IF wpc = "enter_w" THEN "body" ELSE "idle"]
                     /\ key' = [key EXCEPT ![p] =
                                  IF wpc = "enter_w" THEN Key(c, t) ELSE NoKey]
                     /\ outcome' = [outcome EXCEPT ![p] =
                                  IF wpc = "enter_w" THEN "none" ELSE "returned"]
    /\ exitKind' = [exitKind EXCEPT ![p] = "none"]
    /\ UNCHANGED <<now, faulty, uid, alive, scan>>

os_getpid_other(p) == CHOOSE q \in Procs : q # p

os_getpid(p) == p

\* lines 93-96: the write itself and the return
create_write(p) ==
    /\ alive[p]
    /\ pc[p] \in {"create_w", "enter_w"}
    /\ \E ok \in FsOutcomes :
        files' = IF ok /\ p \notin orphan
                 THEN [files EXCEPT ![PathOf(key[p])] =
                          Info(key[p].cluster_id, key[p].operation, os_getpid(p), pending[p])]
                 ELSE files
    /\ orphan' = orphan \ {p}
    /\ pending' = [pending EXCEPT ![p] = 0]
    /\ pc' = [pc EXCEPT ![p] = IF pc[p] = "enter_w" THEN "body" ELSE "idle"]
    /\ key' = [key EXCEPT ![p] = IF pc[p] = "enter_w" THEN @ ELSE NoKey]
    /\ outcome' = [outcome EXCEPT ![p] = IF pc[p] = "enter_w" THEN "none" ELSE "returned"]
    /\ UNCHANGED <<now, faulty, uid, alive, exitKind, dirExists, scan>>

\* lines 99-109
remove_call(p, c, t) ==
    /\ Ready(p)
    /\ \E ok \in FsOutcomes :
        files' = remove_pending_op(files, c, t, ok)
    /\ orphan' = orphan \cup Orphaned(files, files')
    /\ key' = [key EXCEPT ![p] = NoKey]
    /\ pc' = [pc EXCEPT ![p] = "idle"]
    /\ outcome' = [outcome EXCEPT ![p] = "returned"]
    /\ exitKind' = [exitKind EXCEPT ![p] = "none"]
    /\ UNCHANGED <<now, faulty, uid, alive, pending, dirExists, scan>>

\* lines 123-126: the body of the with block ends (by falling off its end,
\* by an early return, or by raising) and the finally clause runs
scope_exit(p, kind) ==
    /\ alive[p]
    /\ pc[p] = "body"
    /\ \E ok \in FsOutcomes :
        files' = pending_op_finally(files, key[p].cluster_id, key[p].operation, kind, ok)
    /\ orphan' = orphan \cup Orphaned(files, files')
    /\ pc' = [pc EXCEPT ![p] = "left"]
    /\ exitKind' = [exitKind EXCEPT ![p] = kind]
    /\ outcome' = [outcome EXCEPT ![p] = IF kind = "raise" THEN "raised" ELSE "returned"]
    /\ UNCHANGED <<now, faulty, uid, alive, key, pending, dirExists, scan>>

(***************************************************************************)
(* list_pending_ops: glob the directory, then for each path read the file, *)
(* probe the owner and delete or report the record.                        *)
(***************************************************************************)
Alive == { p \in Procs : alive[p] }

\* lines 135-140
list_start(p) ==
    /\ Ready(p)
    /\ scan.phase \in {"none", "done", "raised"}
    /\ IF ~dirExists
       THEN /\ scan' = [NoScan EXCEPT !.by = p, !.phase = "done",
                                      !.deadAtStart = Procs \ Alive]
            /\ pc' = [pc EXCEPT ![p] = "idle"]
            /\ outcome' = [outcome EXCEPT ![p] = "returned"]
       ELSE /\ scan' = [NoScan EXCEPT !.by = p, !.phase = "read",
                          !.todo = { f \in Paths : files[f] # Absent },
                          !.deadAtStart = Procs \ Alive]
            /\ pc' = [pc EXCEPT ![p] = "listing"]
            /\ outcome' = [outcome EXCEPT ![p] = "none"]
    /\ key' = [key EXCEPT ![p] = NoKey]
    /\ exitKind' = [exitKind EXCEPT ![p] = "none"]
    /\ UNCHANGED <<now, faulty, uid, alive, pending, orphan, dirExists, files>>

\* lines 140-146: the next path of the glob and path.read_text() on it; a
\* file that has gone, cannot be read or does not parse takes the except
\* branch
list_read(p) ==
    /\ alive[p]
    /\ scan.by = p /\ scan.phase = "read"
    /\ \E f \in scan.todo, ok \in FsOutcomes :
        scan' = [scan EXCEPT !.todo = @ \ {f}, !.cur = f, !.phase = "act",
                             !.info = IF ok THEN files[f] ELSE Corrupt]
    /\ UNCHANGED <<now, faulty, uid, alive, pc, key, pending, orphan, outcome,
                   exitKind, dirExists, files>>

\* the record list_pending_ops reports for a live lock (lines 155-158)
Reported(info, t) ==
    [cluster_id |-> info.cluster_id, operation |-> info.operation,
     pid |-> info.pid, started_at |-> info.started_at,
     elapsed_seconds |-> elapsed_seconds(info.started_at, t)]

\* lines 143-158 for the file just read
list_act(p) ==
    /\ alive[p]
    /\ scan.by = p /\ scan.phase = "act"
    /\ IF scan.info.kind = "not_a_dict"
       THEN \* line 148: info.get raises AttributeError, outside any try
            /\ scan' = [scan EXCEPT !.phase = "raised", !.cur = <<>>, !.info = Absent]
            /\ pc' = [pc EXCEPT ![p] = "idle"]
            /\ outcome' = [outcome EXCEPT ![p] = "raised"]
            /\ UNCHANGED <<files, orphan>>
       ELSE IF scan.info.kind = "rec" /\ _is_pid_alive(p, scan.info.pid)
       THEN /\ scan' = [scan EXCEPT !.phase = "read", !.cur = <<>>, !.info = Absent,
                                    !.ops = @ \cup {Reported(scan.info, now)}]
            /\ UNCHANGED <<files, pc, outcome, orphan>>
       ELSE \* corrupt or stale: path.unlink(missing_ok=True), outside any try
            \E ok \in FsOutcomes :
               /\ files' = unlink(files, scan.cur, ok)
               /\ orphan' = orphan \cup Orphaned(files, files')
               /\ IF ok
                  THEN /\ scan' = [scan EXCEPT !.phase = "read", !.cur = <<>>,
                                               !.info = Absent,
                                               !.pruned = IF scan.info.kind = "rec"
                                                          THEN @ \cup {scan.info.pid}
                                                          ELSE @]
                       /\ UNCHANGED <<pc, outcome>>
                  ELSE /\ scan' = [scan EXCEPT !.phase = "raised", !.cur = <<>>,
                                               !.info = Absent]
                       /\ pc' = [pc EXCEPT ![p] = "idle"]
                       /\ outcome' = [outcome EXCEPT ![p] = "raised"]
    /\ UNCHANGED <<now, faulty, uid, alive, key, pending, exitKind, dirExists>>

\* line 160
list_return(p) ==
    /\ alive[p]
    /\ scan.by = p /\ scan.phase = "read" /\ scan.todo = {}
    /\ scan' = [scan EXCEPT !.phase = "done"]
    /\ pc' = [pc EXCEPT ![p] = "idle"]
    /\ outcome' = [outcome EXCEPT ![p] = "returned"]
    /\ UNCHANGED <<now, faulty, uid, alive, key, pending, orphan, exitKind,
                   dirExists, files>>

\* the process is killed, or exits without running its cleanup
crash(p) ==
    /\ alive[p]
    /\ alive' = [alive EXCEPT ![p] = FALSE]
    /\ pc' = [pc EXCEPT ![p] = "dead"]
    /\ orphan' = orphan \ {p}
    /\ scan' = IF scan.by = p /\ scan.phase \in {"read", "act"} THEN NoScan ELSE scan
    /\ key' = [key EXCEPT ![p] = NoKey]
    /\ pending' = [pending EXCEPT ![p] = 0]
    /\ outcome' = [outcome EXCEPT ![p] = "none"]
    /\ exitKind' = [exitKind EXCEPT ![p] = "none"]
    /\ UNCHANGED <<now, faulty, uid, dirExists, files>>

\* a lock file is left with content that is not a record of this module:
\* a write cut short, another tool, an edit by hand
damage(f, content) ==
    /\ dirExists
    /\ files[f] # content
    /\ files' = [files EXCEPT ![f] = content]
    /\ UNCHANGED <<now, faulty, uid, alive, pc, key, pending, orphan, outcome,
                   exitKind, dirExists, scan>>

tick ==
    /\ now < MaxTime
    /\ now' = now + 1
    /\ UNCHANGED <<faulty, uid, alive, pc, key, pending, orphan, outcome,
                   exitKind, dirExists, files, scan>>

NoArg == [model_id |-> <<>>, hosts |-> <<>>, transfer_given |-> FALSE,
          transfer_hosts |-> <<>>, dry_run |-> FALSE]

InitDist ==
    /\ fn = "none"
    /\ dpc = "idle"
    /\ arg = NoArg
    /\ rc = 0
    /\ results = <<>>
    /\ fixFailed = {}
    /\ failed = <<>>
    /\ log = <<>>
    /\ calls = <<>>

InitSudo ==
    /\ spc = "idle"
    /\ sarg = [host_list |-> <<>>, dry_run |-> FALSE, sudo_password |-> "None"]
    /\ attempt = <<>>
    /\ result_map = {}
    /\ phase1_failed = <<>>
    /\ next_fb = 1
    /\ in_flight = {}
    /\ fb_runs = {}
    /\ last = {}
    /\ still_failed = <<>>

(***************************************************************************)
(* The Hugging Face cache entry of a repository (download.py). File and    *)
(* directory names are strings; a file of a snapshot is the sequence of    *)
(* names from the snapshot directory down to it.                           *)
(***************************************************************************)
H1 == <<"h", "1">>
H2 == <<"h", "2">>
Main == <<"m", "a", "i", "n">>
V1 == <<"v", "1">>
Newline == "\n"
SnapNames == {H1, H2}
RefNames == {Main, V1}

ConfigJson == <<"c", "o", "n", "f", "i", "g", ".", "j", "s", "o", "n">>
ModelSafetensors == <<"m", "o", "d", "e", "l", ".", "s", "a", "f", "e", "t", "e", "n", "s", "o", "r", "s">>
LowerGguf == <<"a", "-", "q", ".", "g", "g", "u", "f">>
UpperGguf == <<"b", "-", "Q", ".", "g", "g", "u", "f">>
QuantDir == <<"Q">>

\* the files a snapshot directory may hold
FilesOf(h) ==
    IF h = H1 THEN { <<ConfigJson>>, <<ModelSafetensors>>, <<LowerGguf>>, <<UpperGguf>>,
                     <<QuantDir, UpperGguf>> }
    ELSE { <<ModelSafetensors>>, <<LowerGguf>> }

NoRef == [exists |-> FALSE, text |-> <<>>]
RefTexts(n) == IF n = Main THEN {H1, H2 \o <<Newline>>} ELSE {H1}

NoDir == [is_dir |-> FALSE, files |-> {}]
Dir(fs) == [is_dir |-> TRUE, files |-> fs]

\* "models--" + repo_id.replace("/", "--")
hub_entry(repo_id) ==
    <<"m", "o", "d", "e", "l", "s", "-", "-">> \o replace(repo_id, "/", <<"-", "-">>)

HubStates ==
    { {}, {hub_entry(<<"o", "/", "m">>)},
      {hub_entry(<<"o", "/", "m">>), hub_entry(<<"o", "/", "G", "g", "u", "f">>)} }

NoCall == [fn |-> "none", model_id |-> <<>>, revision_given |-> FALSE, revision |-> <<>>]
None == [found |-> FALSE, path |-> <<>>]
NoDownload == [model_id |-> <<>>, dry_run |-> FALSE, revision_given |-> FALSE,
               revision |-> <<>>]

InitCache ==
    /\ hub \in HubStates
    /\ has_snapshots \in BOOLEAN
    /\ refs \in [RefNames -> {NoRef} \cup { [exists |-> TRUE, text |-> t] : t \in RefTexts(Main) }]
    /\ \A n \in RefNames : refs[n].exists => refs[n].text \in RefTexts(n)
    /\ snaps \in [SnapNames -> {NoDir} \cup { Dir(fs) : fs \in SUBSET FilesOf(H1) }]
    /\ \A h \in SnapNames : snaps[h].files \subseteq FilesOf(h)
    /\ ~has_snapshots => \A h \in SnapNames : snaps[h] = NoDir
    /\ hub = {} => ~has_snapshots /\ \A n \in RefNames : refs[n] = NoRef
    /\ call = NoCall
    /\ ret = None
    /\ dlpc = "idle"
    /\ dlarg = NoDownload
    /\ cached = FALSE
    /\ fetches = <<>>
    /\ dlret = [rc |-> 0, raised |-> FALSE]

\* no cache entry at all
InitNoCache ==
    /\ hub = {}
    /\ has_snapshots = FALSE
    /\ refs = [n \in RefNames |-> NoRef]
    /\ snaps = [h \in SnapNames |-> NoDir]
    /\ call = NoCall
    /\ ret = None
    /\ dlpc = "idle"
    /\ dlarg = NoDownload
    /\ cached = FALSE
    /\ fetches = <<>>
    /\ dlret = [rc |-> 0, raised |-> FALSE]

InitHub == InitSudo /\ InitNoCache

(***************************************************************************)
(* The ledger used by several processes at once                            *)
(***************************************************************************)
CreatePendingOp(p, c, t) == create_open(p, c, t, "create_w") /\ UNCHANGED <<seqVars, distVars, hubVars>>
CreateWrite(p) == create_write(p) /\ UNCHANGED <<seqVars, distVars, hubVars>>
RemovePendingOp(p, c, t) == remove_call(p, c, t) /\ UNCHANGED <<seqVars, distVars, hubVars>>
ScopeEnter(p, c, t) == create_open(p, c, t, "enter_w") /\ UNCHANGED <<seqVars, distVars, hubVars>>
ScopeExit(p, kind) == scope_exit(p, kind) /\ UNCHANGED <<seqVars, distVars, hubVars>>
ListStart(p) == list_start(p) /\ UNCHANGED <<seqVars, distVars, hubVars>>
ListRead(p) == list_read(p) /\ UNCHANGED <<seqVars, distVars, hubVars>>
ListAct(p) == list_act(p) /\ UNCHANGED <<seqVars, distVars, hubVars>>
ListReturn(p) == list_return(p) /\ UNCHANGED <<seqVars, distVars, hubVars>>
Crash(p) == crash(p) /\ UNCHANGED <<seqVars, distVars, hubVars>>

\* The clock stands still while several processes use the ledger: no branch
\* of the ledger reads it, it is only copied into the records.
NextLedger ==
    \E p \in Procs :
        \/ \E c \in ClusterIds, t \in Tags :
            \/ CreatePendingOp(p, c, t)
            \/ RemovePendingOp(p, c, t)
            \/ ScopeEnter(p, c, t)
        \/ CreateWrite(p)
        \/ \E kind \in ExitKinds : ScopeExit(p, kind)
        \/ ListStart(p)
        \/ ListRead(p)
        \/ ListAct(p)
        \/ ListReturn(p)
        \/ Crash(p)

vars == <<ledgerVars, seqVars, distVars, hubVars>>

\* every filesystem call succeeds
InitNominal == InitLedger /\ InitDist /\ InitHub /\ faulty = FALSE
\* filesystem calls may fail with OSError
InitFaults == InitLedger /\ InitDist /\ InitHub /\ faulty = TRUE

SpecLedger == InitNominal /\ [][NextLedger]_vars
SpecLedgerFaults == InitFaults /\ [][NextLedger]_vars

(***************************************************************************)
(* The ledger with lock files whose content is not a record                *)
(***************************************************************************)
Damage(f, content) == damage(f, content) /\ UNCHANGED <<seqVars, distVars, hubVars>>

NextLedgerDamaged ==
    \/ NextLedger
    \/ \E f \in Paths, content \in {Corrupt, NotADict} : Damage(f, content)

SpecLedgerDamaged == InitNominal /\ [][NextLedgerDamaged]_vars

(***************************************************************************)
(* One process alone: create_pending_op, list_pending_ops,                 *)
(* remove_pending_op, list_pending_ops, while the clock runs.              *)
(***************************************************************************)
SeqBegin(p, c, t) ==
    /\ step = 0
    /\ create_open(p, c, t, "create_w")
    /\ step' = 1
    /\ who' = [pid |-> p, key |-> Key(c, t)]
    /\ UNCHANGED <<distVars, hubVars>>

SeqWrite ==
    /\ step = 1
    /\ create_write(who.pid)
    /\ step' = 2
    /\ UNCHANGED <<who, distVars, hubVars>>

SeqList ==
    /\ step \in {2, 5}
    /\ list_start(who.pid)
    /\ step' = IF scan'.phase = "done" THEN step + 2 ELSE step + 1
    /\ UNCHANGED <<who, distVars, hubVars>>

SeqScan ==
    /\ step \in {3, 6}
    /\ (list_read(who.pid) \/ list_act(who.pid))
    /\ UNCHANGED <<seqVars, distVars, hubVars>>

SeqListed ==
    /\ step \in {3, 6}
    /\ list_return(who.pid)
    /\ step' = step + 1
    /\ UNCHANGED <<who, distVars, hubVars>>

SeqEnd ==
    /\ step = 4
    /\ remove_call(who.pid, who.key.cluster_id, who.key.operation)
    /\ step' = 5
    /\ UNCHANGED <<who, distVars, hubVars>>

SeqTick == tick /\ UNCHANGED <<seqVars, distVars, hubVars>>

NextLedgerSeq ==
    \/ \E p \in Procs, c \in ClusterIds, t \in Tags : SeqBegin(p, c, t)
    \/ SeqWrite
    \/ SeqList
    \/ SeqScan
    \/ SeqListed
    \/ SeqEnd
    \/ SeqTick

SpecLedgerSeq == InitNominal /\ [][NextLedgerSeq]_vars

(***************************************************************************)
(* Properties of the ledger                                                *)
(***************************************************************************)
HoldsRecordOf(f, p) == files[f].kind = "rec" /\ files[f].pid = p

\* C1 (pending_op releases on every exit path): once a process has left a
\* pending_op scope for (c, t) - by normal return, early return or an
\* exception of the body - the lock file of (c, t) holds no record written by
\* that process, and the caller sees an exception exactly when the body
\* raised one.  Checked where filesystem calls succeed.
C1_ScopeReleased ==
    \A p \in Procs :
        pc[p] = "left" =>
            /\ ~HoldsRecordOf(PathOf(key[p]), p)
            /\ (exitKind[p] = "raise" <=> outcome[p] = "raised")
            /\ (exitKind[p] \in {"return", "early_return"} <=> outcome[p] = "returned")

\* a scope left by an exception while another process's record is in the ledger
C1_Witness ==
    \E p \in Procs, q \in Procs, f \in Paths :
        /\ p # q
        /\ pc[p] = "left" /\ exitKind[p] = "raise"
        /\ HoldsRecordOf(f, q)

\* C2 (begin, list, end, list): starting from an empty ledger, after
\* create_pending_op(c, t) the caller's list_pending_ops returns exactly one
\* record, with cluster id c, operation t, the caller's pid and a
\* non-negative elapsed_seconds; after remove_pending_op(c, t) it returns none.
C2_BeginListEndList ==
    /\ step = 4 =>
        /\ scan.phase = "done" /\ scan.by = who.pid
        /\ Cardinality(scan.ops) = 1
        /\ \A r \in scan.ops :
            /\ r.cluster_id = who.key.cluster_id
            /\ r.operation = who.key.operation
            /\ r.pid = who.pid
            /\ r.elapsed_seconds >= 0
    /\ step = 7 => scan.phase = "done" /\ scan.by = who.pid /\ scan.ops = {}

\* the whole scenario has run, and time has passed meanwhile
C2_Witness == step = 7 /\ now = MaxTime

StaleFiles == { f \in Paths : files[f].kind = "rec" /\ ~alive[files[f].pid] }

\* C3 as stated (crash recovery): when a list_pending_ops call completes, no
\* record whose owner has exited remains in the ledger, and none is returned.
C3_NoStaleAfterAnyCompletedList ==
    [][(scan.phase # "done" /\ scan'.phase = "done") =>
          /\ { f \in Paths : files'[f].kind = "rec" /\ ~alive'[files'[f].pid] } = {}
          /\ \A r \in scan'.ops : alive'[r.pid]]_vars

\* C3 as amended: when a list_pending_ops call has completed (returned
\* without raising), the ledger holds no record of an owner that had exited
\* before the call began, and the call returned none.
C3_NoStaleFromBeforeTheCall ==
    scan.phase = "done" =>
        /\ \A f \in Paths : files[f].kind = "rec" => files[f].pid \notin scan.deadAtStart
        /\ \A r \in scan.ops : r.pid \notin scan.deadAtStart

\* a completed call that deleted the lock of an owner dead before it began
C3_Witness ==
    /\ scan.phase = "done"
    /\ scan.pruned \cap scan.deadAtStart # {}

\* C4 (live records are kept): when list_pending_ops handles a file whose
\* content is still the well-formed record it read and whose owner is alive,
\* it leaves the file in place and reports the record.
C4_LiveRecordKept ==
    [][(/\ scan.phase = "act" /\ scan'.phase \in {"read", "raised"}
        /\ scan.info.kind = "rec"
        /\ alive[scan.info.pid]
        /\ files[scan.cur] = scan.info)
       => /\ files'[scan.cur] = scan.info
          /\ Reported(scan.info, now) \in scan'.ops]_vars

(***************************************************************************)
(* Model identifiers (sparkrun/models/download.py)                         *)
(***************************************************************************)
ModelIds == { <<"o", "/", "m">>, <<"o", "/", "G", "g", "u", "f">>, <<"o", "/", "m", ":", "Q">> }

Range(seq) == { seq[i] : i \in 1..Len(seq) }

\* str.lower() on the letters the identifiers use
lower_char(ch) ==
    CASE ch = "G" -> "g" [] ch = "U" -> "u" [] ch = "F" -> "f" [] ch = "Q" -> "q"
      [] OTHER -> ch

lower(str) == [i \in 1..Len(str) |-> lower_char(str[i])]

\* sub in str
Contains(str, sub) ==
    \E i \in 0..(Len(str) - Len(sub)) : SubSeq(str, i + 1, i + Len(sub)) = sub

\* model_id.split(":", 1): the split at the first colon
parse_gguf_model_spec_first_colon(model_id) ==
    IF ":" \in Range(model_id)
    THEN LET k == CHOOSE i \in 1..Len(model_id) :
                    /\ model_id[i] = ":"
                    /\ \A j \in 1..(i - 1) : model_id[j] # ":"
         IN  [repo_id |-> SubSeq(model_id, 1, k - 1), quant_given |-> TRUE,
              quant |-> SubSeq(model_id, k + 1, Len(model_id))]
    ELSE [repo_id |-> model_id, quant_given |-> FALSE, quant |-> <<>>]

\* model_id.rsplit(":", 1); quant_given = FALSE is quant None
parse_gguf_model_spec(model_id) ==
    IF ":" \in Range(model_id)
    THEN LET k == CHOOSE i \in 1..Len(model_id) :
                    /\ model_id[i] = ":"
                    /\ \A j \in (i + 1)..Len(model_id) : model_id[j] # ":"
         IN  [repo_id |-> SubSeq(model_id, 1, k - 1), quant_given |-> TRUE,
              quant |-> SubSeq(model_id, k + 1, Len(model_id))]
    ELSE [repo_id |-> model_id, quant_given |-> FALSE, quant |-> <<>>]

\* the test of the repository id without lower()
is_gguf_model_case_sensitive(model_id) ==
    LET spec == parse_gguf_model_spec(model_id)
    IN  IF spec.quant_given THEN TRUE
        ELSE Contains(spec.repo_id, <<"g", "g", "u", "f">>)

is_gguf_model(model_id) ==
    LET spec == parse_gguf_model_spec(model_id)
    IN  IF spec.quant_given THEN TRUE
        ELSE Contains(lower(spec.repo_id), <<"g", "g", "u", "f">>)

download_model_ignoring_dry_run(model_id, dry_run, fetched) ==
    IF fetched THEN 0 ELSE 1

\* download_model: 0 on a dry run (nothing is fetched), else 0 when
\* snapshot_download completes and 1 when it raises
download_model(model_id, dry_run, fetched) ==
    IF dry_run THEN 0 ELSE IF fetched THEN 0 ELSE 1

\* a call to the fetch or to the remote executor, with what it was given
Call(what, script, params, hosts, dry_run) ==
    [what |-> what, script |-> script, params |-> params, hosts |-> hosts,
     dry_run |-> dry_run]

\* the snapshot_download calls download_model makes: none on a dry run, else
\* one, for the repository of a GGUF spec or for the model id
download_model_fetch(model_id, dry_run) ==
    IF is_gguf_model(model_id)
    THEN IF dry_run THEN <<>>
         ELSE <<Call("snapshot_download", "", <<parse_gguf_model_spec(model_id).repo_id>>,
                     <<>>, FALSE)>>
    ELSE IF dry_run THEN <<>>
         ELSE <<Call("snapshot_download", "", <<model_id>>, <<>>, FALSE)>>

(***************************************************************************)
(* The remote executor (sparkrun/orchestration/ssh.py): one result per     *)
(* host of the call, identified by the host name the call was given;       *)
(* synthetic successes on a dry run.                                       *)
(***************************************************************************)
MgmtNames == {"m1", "m2", "m3"}
XferNames == {"x1", "x2"}

InjSeqs(S, n) == { q \in [1..n -> S] : \A i, j \in 1..n : i # j => q[i] # q[j] }

\* management host lists: distinct machines, at most MaxHosts of them
HostLists == UNION { InjSeqs(MgmtNames, n) : n \in 0..MaxHosts }

\* transfer host lists for a management host list: index i is the data-path
\* address of hosts[i], either its management name or a name of the fabric
TransferLists(hosts) ==
    { q \in InjSeqs(MgmtNames \cup XferNames, Len(hosts)) :
        \A i \in 1..Len(hosts) : q[i] = hosts[i] \/ q[i] \in XferNames }

Outcomes(n) == [1..n -> BOOLEAN]

fan_out(targets, dry_run, ok) ==
    [i \in 1..Len(targets) |-> [host |-> targets[i], success |-> dry_run \/ ok[i]]]

run_remote_scripts_parallel(hosts, dry_run, ok) == fan_out(hosts, dry_run, ok)

run_rsync_parallel(hosts, dry_run, ok) == fan_out(hosts, dry_run, ok)

\* [r.host for r in results if not r.success]
RECURSIVE failed_hosts(_)
failed_hosts(rs) ==
    IF rs = <<>> THEN <<>>
    ELSE (IF Head(rs).success THEN <<>> ELSE <<Head(rs).host>>) \o failed_hosts(Tail(rs))

IndexOf(seq, x) == CHOOSE i \in 1..Len(seq) : seq[i] = x

\* sparkrun.orchestration.primitives.map_transfer_failures: the management
\* host at the index of each failed transfer host
RECURSIVE map_transfer_failures(_, _, _)
map_transfer_failures(rs, xfer, hosts) ==
    IF rs = <<>> THEN <<>>
    ELSE (IF Head(rs).success THEN <<>> ELSE <<hosts[IndexOf(xfer, Head(rs).host)]>>)
         \o map_transfer_failures(Tail(rs), xfer, hosts)

\* sparkrun.orchestration.primitives.sync_resource_to_hosts: the hosts whose
\* result was unsuccessful
sync_resource_to_hosts(rs) == failed_hosts(rs)

Event(ev, what, host, ok) == [ev |-> ev, what |-> what, host |-> host, ok |-> ok]

(***************************************************************************)
(* distribute_model_from_local                                             *)
(***************************************************************************)
\* line 129: xfer = transfer_hosts or hosts
local_xfer(a) ==
    IF a.transfer_given /\ a.transfer_hosts # <<>> THEN a.transfer_hosts ELSE a.hosts

local_after_download_any_hosts(code, hosts) ==
    IF code # 0 THEN [dpc |-> "done", failed |-> hosts]
    ELSE [dpc |-> "fix", failed |-> <<>>]

local_after_download_ignoring_rc(code, hosts) ==
    IF hosts = <<>> THEN [dpc |-> "done", failed |-> <<>>]
    ELSE [dpc |-> "fix", failed |-> <<>>]

\* lines 122-127: what follows the download
local_after_download(code, hosts) ==
    IF code # 0 THEN [dpc |-> "done", failed |-> hosts]
    ELSE IF hosts = <<>> THEN [dpc |-> "done", failed |-> <<>>]
    ELSE [dpc |-> "fix", failed |-> <<>>]

local_failed_unmapped(rs, xfer, hosts) == failed_hosts(rs)

\* line 147
local_failed(rs, xfer, hosts) == map_transfer_failures(rs, xfer, hosts)

LocalCall(model_id, hosts, given, transfer_hosts, dry_run) ==
    /\ fn = "none"
    /\ fn' = "distribute_model_from_local"
    /\ arg' = [model_id |-> model_id, hosts |-> hosts, transfer_given |-> given,
               transfer_hosts |-> transfer_hosts, dry_run |-> dry_run]
    /\ dpc' = "download"
    /\ UNCHANGED <<rc, results, fixFailed, failed, log, calls, ledgerVars, seqVars, hubVars>>

\* lines 117-127
LocalDownload ==
    /\ fn = "distribute_model_from_local" /\ dpc = "download"
    /\ \E fetched \in BOOLEAN :
        LET code == download_model(arg.model_id, arg.dry_run, fetched)
            next == local_after_download(code, arg.hosts)
        IN  /\ rc' = code
            /\ dpc' = next.dpc
            /\ failed' = next.failed
            /\ log' = Append(log, Event("call", "download_model", <<>>, code = 0))
    /\ calls' = calls \o download_model_fetch(arg.model_id, arg.dry_run)
    /\ UNCHANGED <<fn, arg, results, fixFailed, ledgerVars, seqVars, hubVars>>

local_after_fix_retrying(fix_failed, hosts) ==
    IF fix_failed # <<>> THEN [dpc |-> "fix", failed |-> <<>>]
    ELSE [dpc |-> "rsync", failed |-> <<>>]

local_after_fix_aborting(fix_failed, hosts) ==
    IF fix_failed # <<>> THEN [dpc |-> "done", failed |-> hosts]
    ELSE [dpc |-> "rsync", failed |-> <<>>]

\* lines 65-73 and 131-138: the hosts the fix failed on are counted for the
\* warning and nothing else; the rsync follows
local_after_fix(fix_failed, hosts) == [dpc |-> "rsync", failed |-> <<>>]

\* lines 131-136 and _try_fix_remote_permissions (lines 59-73)
LocalFix ==
    /\ fn = "distribute_model_from_local" /\ dpc = "fix"
    /\ \E ok \in Outcomes(Len(arg.hosts)) :
        LET rs == run_remote_scripts_parallel(arg.hosts, arg.dry_run, ok)
            next == local_after_fix(failed_hosts(rs), arg.hosts)
        IN  /\ fixFailed' = Range(failed_hosts(rs))
            /\ dpc' = next.dpc
            /\ failed' = next.failed
    /\ log' = Append(log, Event("fan_out", "fix_permissions", arg.hosts, TRUE))
    /\ calls' = Append(calls, Call("run_remote_scripts_parallel", "fix_permissions",
                                   <<>>, arg.hosts, arg.dry_run))
    /\ UNCHANGED <<fn, arg, rc, results, ledgerVars, seqVars, hubVars>>

\* lines 138-153
LocalRsync ==
    /\ fn = "distribute_model_from_local" /\ dpc = "rsync"
    /\ \E ok \in Outcomes(Len(local_xfer(arg))) :
        /\ results' = run_rsync_parallel(local_xfer(arg), arg.dry_run, ok)
        /\ failed' = local_failed(results', local_xfer(arg), arg.hosts)
    /\ log' = Append(log, Event("fan_out", "rsync", local_xfer(arg), TRUE))
    /\ calls' = Append(calls, Call("run_rsync_parallel", "", <<>>, local_xfer(arg),
                                   arg.dry_run))
    /\ dpc' = "done"
    /\ UNCHANGED <<fn, arg, rc, fixFailed, ledgerVars, seqVars, hubVars>>

(***************************************************************************)
(* distribute_model_from_head                                              *)
(***************************************************************************)
\* seq[1:]
Rest(seq) == IF seq = <<>> THEN <<>> ELSE Tail(seq)

EnsureScripts == {"model_sync.sh", "model_sync_gguf.sh"}
DistributeScript == "model_distribute.sh"

Script(name, targets) == [name |-> name, targets |-> targets]

head_ensure_script_distribute(a) == Script(DistributeScript, <<>>)

\* lines 201-213
head_ensure_script(a) ==
    Script(IF is_gguf_model(a.model_id) THEN "model_sync_gguf.sh" ELSE "model_sync.sh", <<>>)

\* lines 205-213: what the ensure script is formatted with (quant or "")
head_ensure_params(a) ==
    IF is_gguf_model(a.model_id)
    THEN <<parse_gguf_model_spec(a.model_id).repo_id, parse_gguf_model_spec(a.model_id).quant>>
    ELSE <<a.model_id>>

\* lines 215-226: targets = worker_transfer_hosts or hosts[1:]
head_dist_script(a) ==
    Script(DistributeScript,
           IF a.transfer_given /\ a.transfer_hosts # <<>> THEN a.transfer_hosts
           ELSE Rest(a.hosts))

head_args_workers_only(a) ==
    [head |-> a.hosts[1], hosts |-> Rest(a.hosts),
     ensure_script |-> head_ensure_script(a), distribute_script |-> head_dist_script(a)]

head_args_targets(a) ==
    [head |-> a.hosts[1], hosts |-> <<a.hosts[1]>> \o head_dist_script(a).targets,
     ensure_script |-> head_ensure_script(a), distribute_script |-> head_dist_script(a)]

head_args_swapped(a) ==
    [head |-> a.hosts[1], hosts |-> a.hosts,
     ensure_script |-> head_dist_script(a), distribute_script |-> head_ensure_script(a)]

head_args_reversed(a) ==
    [head |-> a.hosts[1],
     hosts |-> [i \in 1..Len(a.hosts) |-> a.hosts[Len(a.hosts) + 1 - i]],
     ensure_script |-> head_ensure_script(a), distribute_script |-> head_dist_script(a)]

\* lines 197 and 228-235: what is handed to _distribute_from_head
head_args(a) ==
    [head |-> a.hosts[1], hosts |-> a.hosts,
     ensure_script |-> head_ensure_script(a), distribute_script |-> head_dist_script(a)]

\* lines 193-194 and the call
HeadCall(model_id, hosts, given, worker_transfer_hosts, dry_run) ==
    /\ fn = "none"
    /\ fn' = "distribute_model_from_head"
    /\ arg' = [model_id |-> model_id, hosts |-> hosts, transfer_given |-> given,
               transfer_hosts |-> worker_transfer_hosts, dry_run |-> dry_run]
    /\ dpc' = IF hosts = <<>> THEN "done" ELSE "ensure"
    /\ UNCHANGED <<rc, results, fixFailed, failed, log, calls, ledgerVars, seqVars, hubVars>>

\* sparkrun.orchestration.distribution._distribute_from_head, step (a): the
\* ensure script is run on the head only
HeadEnsureStart ==
    /\ fn = "distribute_model_from_head" /\ dpc = "ensure"
    /\ LET c == head_args(arg)
       IN  /\ log' = Append(log, Event("start", c.ensure_script.name, <<c.head>>, TRUE))
           /\ calls' = Append(calls, Call("run_remote_script", c.ensure_script.name,
                                          head_ensure_params(arg), <<c.head>>, arg.dry_run))
    /\ dpc' = "ensuring"
    /\ UNCHANGED <<fn, arg, rc, results, fixFailed, failed, ledgerVars, seqVars, hubVars>>

\* what follows the ensure script: abort with every host failed, stop when
\* the head is the only host (step (b)), or go on to distribute
from_head_after_ensure(success, hosts) ==
    IF ~success THEN [dpc |-> "done", failed |-> hosts]
    ELSE IF Len(hosts) <= 1 THEN [dpc |-> "done", failed |-> <<>>]
    ELSE [dpc |-> "dist", failed |-> <<>>]

HeadEnsureEnd ==
    /\ fn = "distribute_model_from_head" /\ dpc = "ensuring"
    /\ \E ok \in BOOLEAN :
        LET c == head_args(arg)
            success == arg.dry_run \/ ok
            next == from_head_after_ensure(success, c.hosts)
        IN  /\ log' = Append(log, Event("end", c.ensure_script.name, <<c.head>>, success))
            /\ dpc' = next.dpc
            /\ failed' = next.failed
    /\ UNCHANGED <<fn, arg, rc, results, fixFailed, calls, ledgerVars, seqVars, hubVars>>

\* step (c): the distribute script is run on the head
HeadDistStart ==
    /\ fn = "distribute_model_from_head" /\ dpc = "dist"
    /\ LET c == head_args(arg)
       IN  /\ log' = Append(log, Event("start", c.distribute_script.name, <<c.head>>, TRUE))
           /\ calls' = Append(calls, Call("run_remote_script", c.distribute_script.name,
                                          c.distribute_script.targets, <<c.head>>,
                                          arg.dry_run))
    /\ dpc' = "disting"
    /\ UNCHANGED <<fn, arg, rc, results, fixFailed, failed, ledgerVars, seqVars, hubVars>>

\* the management names of the workers the head-side script reports failed
RECURSIVE failed_workers(_, _)
failed_workers(workers, ok) ==
    IF workers = <<>> THEN <<>>
    ELSE (IF ok[1] THEN <<>> ELSE <<Head(workers)>>)
         \o failed_workers(Tail(workers), [i \in 1..(Len(workers) - 1) |-> ok[i + 1]])

\* step (d): a failed run of the script fails the whole host set, else the
\* workers it reports; results holds what the script signalled for each
\* worker, in the order of the workers (nothing when it did not run)
HeadDistEnd ==
    /\ fn = "distribute_model_from_head" /\ dpc = "disting"
    /\ \E ran \in BOOLEAN, ok \in Outcomes(Len(head_args(arg).hosts) - 1) :
        LET c == head_args(arg)
            success == arg.dry_run \/ ran
        IN  /\ log' = Append(log, Event("end", c.distribute_script.name, <<c.head>>, success))
            /\ results' = IF ~success THEN <<>>
                          ELSE fan_out(Rest(c.hosts), arg.dry_run, ok)
            /\ failed' = IF ~success THEN c.hosts
                         ELSE IF arg.dry_run THEN <<>>
                         ELSE failed_workers(Rest(c.hosts), ok)
    /\ dpc' = "done"
    /\ UNCHANGED <<fn, arg, rc, fixFailed, calls, ledgerVars, seqVars, hubVars>>

(***************************************************************************)
(* sync_model_to_hosts, sync_image_to_hosts                                *)
(***************************************************************************)
SyncFns == {"sync_model_to_hosts", "sync_image_to_hosts"}

\* models/sync.py line 43, containers/sync.py line 34
sync_script(f) == IF f = "sync_model_to_hosts" THEN "model_sync.sh" ELSE "image_sync.sh"

\* models/sync.py lines 43-45, containers/sync.py line 34: what the script is
\* formatted with (the model id, or the image reference)
sync_params(f, a) == <<a.model_id>>

sync_hosts_but_first(f, a) == Rest(a.hosts)

\* models/sync.py lines 47-50, containers/sync.py lines 36-39: the hosts
\* handed to sync_resource_to_hosts
sync_hosts(f, a) == a.hosts

SyncCall(f, model_id, hosts, dry_run) ==
    /\ fn = "none"
    /\ fn' = f
    /\ arg' = [model_id |-> model_id, hosts |-> hosts, transfer_given |-> FALSE,
               transfer_hosts |-> <<>>, dry_run |-> dry_run]
    /\ dpc' = "run"
    /\ UNCHANGED <<rc, results, fixFailed, failed, log, calls, ledgerVars, seqVars, hubVars>>

\* models/sync.py lines 47-50, containers/sync.py lines 36-39
SyncRun ==
    /\ fn \in SyncFns /\ dpc = "run"
    /\ \E ok \in Outcomes(Len(sync_hosts(fn, arg))) :
        /\ results' = run_remote_scripts_parallel(sync_hosts(fn, arg), arg.dry_run, ok)
        /\ failed' = sync_resource_to_hosts(results')
    /\ log' = Append(log, Event("fan_out", sync_script(fn), sync_hosts(fn, arg), TRUE))
    /\ calls' = Append(calls, Call("run_remote_scripts_parallel", sync_script(fn),
                                   sync_params(fn, arg), sync_hosts(fn, arg), arg.dry_run))
    /\ dpc' = "done"
    /\ UNCHANGED <<fn, arg, rc, fixFailed, ledgerVars, seqVars, hubVars>>

NextDist ==
    \/ \E model_id \in ModelIds, hosts \in HostLists, dry_run \in BOOLEAN :
        \/ \E given \in BOOLEAN, th \in TransferLists(hosts) :
              LocalCall(model_id, hosts, given, IF given THEN th ELSE <<>>, dry_run)
        \/ \E given \in BOOLEAN, wth \in TransferLists(Rest(hosts)) :
              HeadCall(model_id, hosts, given, IF given THEN wth ELSE <<>>, dry_run)
        \/ \E f \in SyncFns : SyncCall(f, model_id, hosts, dry_run)
    \/ LocalDownload
    \/ LocalFix
    \/ LocalRsync
    \/ HeadEnsureStart
    \/ HeadEnsureEnd
    \/ HeadDistStart
    \/ HeadDistEnd
    \/ SyncRun

InitDistOnly ==
    /\ InitLedger
    /\ faulty = FALSE
    /\ uid = [p \in Procs |-> "alice"]
    /\ InitDist
    /\ InitHub

SpecDist == InitDistOnly /\ [][NextDist]_vars

(***************************************************************************)
(* The same functions called with any transfer list: neither function      *)
(* compares the length of the list it is given with that of hosts          *)
(* (distribute.py lines 129 and 216). A transfer list longer than hosts is *)
(* left out for distribute_model_from_local: what map_transfer_failures    *)
(* makes of a transfer host without a management host is not specified.    *)
(***************************************************************************)
AnyTransferLists == UNION { InjSeqs(XferNames, n) : n \in 1..MaxHosts }

NextDistUnchecked ==
    \/ \E model_id \in ModelIds, hosts \in HostLists, dry_run \in BOOLEAN :
        \/ \E th \in { q \in AnyTransferLists : Len(q) <= Len(hosts) } :
              LocalCall(model_id, hosts, TRUE, th, dry_run)
        \/ \E wth \in AnyTransferLists :
              HeadCall(model_id, hosts, TRUE, wth, dry_run)
    \/ LocalDownload
    \/ LocalFix
    \/ LocalRsync
    \/ HeadEnsureStart
    \/ HeadEnsureEnd
    \/ HeadDistStart
    \/ HeadDistEnd

SpecDistUnchecked == InitDistOnly /\ [][NextDistUnchecked]_vars

(***************************************************************************)
(* Properties of the distribution functions                                *)
(***************************************************************************)
Ran(what) == \E i \in 1..Len(log) : log[i].what = what
FanOuts == { i \in 1..Len(log) : log[i].ev = "fan_out" }
EnsureFailed ==
    \E i \in 1..Len(log) :
        log[i].ev = "end" /\ log[i].what \in EnsureScripts /\ ~log[i].ok
EnsureSucceeded ==
    \E i \in 1..Len(log) :
        log[i].ev = "end" /\ log[i].what \in EnsureScripts /\ log[i].ok

\* C5 (local acquisition fails): when download_model returns non-zero,
\* distribute_model_from_local returns the full input host list, in order,
\* and makes no call to the remote executor (no ownership fix, no rsync).
C5_DownloadFailureAborts ==
    (fn = "distribute_model_from_local" /\ rc # 0) =>
        /\ dpc = "done"
        /\ failed = arg.hosts
        /\ FanOuts = {}

\* a failed download for two hosts with a transfer-host list
C5_Witness ==
    /\ fn = "distribute_model_from_local" /\ rc # 0 /\ dpc = "done"
    /\ Len(arg.hosts) > 1 /\ arg.transfer_given

\* the transfer hosts distribute_model_from_local was called with
GivenTransfer == IF arg.transfer_given THEN arg.transfer_hosts ELSE arg.hosts

\* C6 (transfer-host indirection): once distribute_model_from_local has run
\* its rsync fan-out, for every index i the result for transfer_hosts[i] is
\* unsuccessful exactly when hosts[i] is in the returned list.
C6_TransferFailureMapped ==
    (fn = "distribute_model_from_local" /\ dpc = "done" /\ Ran("rsync")) =>
        \A i \in 1..Len(arg.hosts) :
            /\ \E k \in 1..Len(results) : results[k].host = GivenTransfer[i]
            /\ \A k \in 1..Len(results) :
                results[k].host = GivenTransfer[i] =>
                    (~results[k].success <=> arg.hosts[i] \in Range(failed))

\* every host has a transfer name of its own; one transfer failed, one did not
C6_Witness ==
    /\ fn = "distribute_model_from_local" /\ dpc = "done" /\ Ran("rsync")
    /\ arg.transfer_given
    /\ \A i \in 1..Len(arg.hosts) : arg.transfer_hosts[i] # arg.hosts[i]
    /\ \E k, l \in 1..Len(results) : ~results[k].success /\ results[l].success

\* C7 (management hostnames only): whatever the remote executor reports,
\* every element of the list a distribution function returns is one of the
\* management hosts it was called with.
C7_OnlyManagementHosts ==
    dpc = "done" => Range(failed) \subseteq Range(arg.hosts)

\* a worker reached over a transfer name of its own is reported failed by
\* distribute_model_from_head
C7_Witness ==
    /\ fn = "distribute_model_from_head" /\ dpc = "done"
    /\ arg.transfer_given /\ Range(arg.transfer_hosts) \subseteq XferNames
    /\ Ran(DistributeScript)
    /\ failed # <<>>

\* C8 (head acquisition fails): when the ensure script is unsuccessful on the
\* head, distribute_model_from_head returns the full host list and the
\* distribute script is never run.
C8_EnsureFailureAborts ==
    (fn = "distribute_model_from_head" /\ EnsureFailed) =>
        /\ dpc = "done"
        /\ failed = arg.hosts
        /\ ~Ran(DistributeScript)

\* the ensure script failed on the head of a list with workers
C8_Witness ==
    /\ fn = "distribute_model_from_head" /\ EnsureFailed
    /\ Len(arg.hosts) > 1

\* C9 (ensure before distribute): every start of the distribute script comes
\* after the end of a successful run of the ensure script.
C9_EnsureBeforeDistribute ==
    fn = "distribute_model_from_head" =>
        \A j \in 1..Len(log) :
            (log[j].ev = "start" /\ log[j].what = DistributeScript) =>
                \E i \in 1..(j - 1) :
                    log[i].ev = "end" /\ log[i].what \in EnsureScripts /\ log[i].ok

\* the distribute script has started
C9_Witness ==
    /\ fn = "distribute_model_from_head"
    /\ \E j \in 1..Len(log) : log[j].ev = "start" /\ log[j].what = DistributeScript

\* C10 (single host): with exactly one host, distribute_model_from_head runs
\* only the ensure script, on that host, and returns the empty list when it
\* succeeds.
C10_SingleHostNeverDistributes ==
    (fn = "distribute_model_from_head" /\ Len(arg.hosts) = 1) =>
        /\ \A i \in 1..Len(log) :
            log[i].what \in EnsureScripts /\ log[i].host = <<arg.hosts[1]>>
        /\ (dpc = "done" /\ EnsureSucceeded) => failed = <<>>
        /\ (dpc = "done") => Len(log) = 2

\* one host, the ensure script succeeded, the call has returned
C10_Witness ==
    /\ fn = "distribute_model_from_head" /\ Len(arg.hosts) = 1
    /\ dpc = "done" /\ EnsureSucceeded

\* the runs of the distribute script that have ended
DistributeEnds ==
    { i \in 1..Len(log) : log[i].ev = "end" /\ log[i].what = DistributeScript }

\* the workers of the call the head-side script signalled as failed
SignalledWorkers ==
    { arg.hosts[k + 1] : k \in { j \in 1..Len(results) : ~results[j].success } }

\* C11 (outcome of the distribute step): distribute_model_from_head with two
\* or more hosts and a successful ensure step runs the distribute script on
\* the head; when that run fails it returns the whole host list, and
\* otherwise it returns exactly the management names of the workers the
\* script signalled as failed (the empty list when it signalled none).
C11_DistributeOutcome ==
    (/\ fn = "distribute_model_from_head" /\ dpc = "done"
     /\ Len(arg.hosts) >= 2 /\ EnsureSucceeded) =>
        /\ DistributeEnds # {}
        /\ \A i \in DistributeEnds :
              IF ~log[i].ok THEN failed = arg.hosts
              ELSE /\ Len(results) = Len(arg.hosts) - 1
                   /\ Range(failed) = SignalledWorkers
                   /\ Len(failed) = Cardinality(SignalledWorkers)

\* the script ran and signalled the failure of a worker that it reached
\* over a transfer name
C11_Witness ==
    /\ fn = "distribute_model_from_head" /\ dpc = "done" /\ EnsureSucceeded
    /\ arg.transfer_given /\ Range(arg.transfer_hosts) \subseteq XferNames
    /\ \E i \in DistributeEnds : log[i].ok
    /\ SignalledWorkers # {}
    /\ failed = <<arg.hosts[2]>>

\* C12 (the ownership fix is advisory): whatever hosts the fix script fails
\* on, distribute_model_from_local goes on to one rsync fan-out over every
\* target host, and the list it returns holds hosts[i] exactly when the
\* rsync result of the i-th target is unsuccessful.
C12_FixIsAdvisory ==
    (fn = "distribute_model_from_local" /\ Ran("fix_permissions")) =>
        /\ dpc \in {"rsync", "done"}
        /\ dpc = "rsync" => failed = <<>>
        /\ dpc = "done" =>
              /\ \E k \in 1..Len(calls) :
                    /\ calls[k].what = "run_rsync_parallel"
                    /\ calls[k].hosts = GivenTransfer
              /\ Len(results) = Len(arg.hosts)
              /\ \A i \in 1..Len(arg.hosts) :
                    /\ results[i].host = GivenTransfer[i]
                    /\ arg.hosts[i] \in Range(failed) <=> ~results[i].success

\* the fix failed on both hosts, the rsync succeeded on both and the call
\* returned the empty list
C12_Witness ==
    /\ fn = "distribute_model_from_local" /\ dpc = "done" /\ ~arg.dry_run
    /\ Len(arg.hosts) = 2 /\ fixFailed = Range(arg.hosts)
    /\ Ran("rsync") /\ failed = <<>>

\* C13 (dry run): a distribution call made with dry_run = TRUE never invokes
\* the fetch, hands dry_run = TRUE to every executor call it makes, gets 0
\* from download_model and returns the empty list.
C13_DryRunNoEffect ==
    (fn # "none" /\ arg.dry_run) =>
        /\ \A k \in 1..Len(calls) :
              calls[k].what # "snapshot_download" /\ calls[k].dry_run
        /\ Ran("download_model") => rc = 0
        /\ dpc = "done" => failed = <<>>

\* a dry run of distribute_model_from_local over two hosts has gone through
\* the download, the ownership fix and the rsync
C13_Witness ==
    /\ fn = "distribute_model_from_local" /\ arg.dry_run /\ dpc = "done"
    /\ Len(arg.hosts) = 2 /\ Ran("download_model") /\ Len(calls) = 2

\* C14 (independent pull): sync_model_to_hosts and sync_image_to_hosts run
\* the script on every host of the input list, whatever the other hosts'
\* results, and return exactly the input hosts whose result was
\* unsuccessful.
C14_EveryHostAttempted ==
    (fn \in SyncFns /\ dpc = "done") =>
        /\ Len(calls) = 1
        /\ calls[1].what = "run_remote_scripts_parallel"
        /\ calls[1].hosts = arg.hosts
        /\ Len(results) = Len(arg.hosts)
        /\ \A i \in 1..Len(arg.hosts) :
              /\ results[i].host = arg.hosts[i]
              /\ arg.hosts[i] \in Range(failed) <=> ~results[i].success
        /\ Range(failed) \subseteq Range(arg.hosts)
        /\ Len(failed) = Cardinality(Range(failed))

\* the image sync failed on the first of two hosts and succeeded on the
\* second
C14_Witness ==
    /\ fn = "sync_image_to_hosts" /\ dpc = "done" /\ ~arg.dry_run
    /\ Len(arg.hosts) = 2 /\ Len(results) = 2
    /\ ~results[1].success /\ results[2].success
    /\ failed = <<arg.hosts[1]>>

\* C15 (ensure script selection): every ensure script run by
\* sync_model_to_hosts or distribute_model_from_head is the GGUF fetch script
\* with the parsed repository id and quant pattern when is_gguf_model holds
\* of the model id, and the generic fetch script with the model id otherwise.
C15_EnsureScriptByGguf ==
    fn \in {"sync_model_to_hosts", "distribute_model_from_head"} =>
        \A k \in 1..Len(calls) :
            (calls[k].script \in EnsureScripts /\ calls[k].hosts # <<>>) =>
                IF is_gguf_model(arg.model_id)
                THEN /\ calls[k].script = "model_sync_gguf.sh"
                     /\ calls[k].params = <<parse_gguf_model_spec(arg.model_id).repo_id,
                                            parse_gguf_model_spec(arg.model_id).quant>>
                ELSE /\ calls[k].script = "model_sync.sh"
                     /\ calls[k].params = <<arg.model_id>>

\* C16 (parallel lists): when a distribution call is given a transfer-host
\* list, the rsync fan-out of distribute_model_from_local is over as many
\* endpoints as there are hosts, and the distribute script of
\* distribute_model_from_head has as many targets as there are workers.
C16_TransferListLength ==
    (fn \in {"distribute_model_from_local", "distribute_model_from_head"}
     /\ arg.transfer_given) =>
        \A k \in 1..Len(calls) :
            /\ calls[k].what = "run_rsync_parallel" =>
                  Len(calls[k].hosts) = Len(arg.hosts)
            /\ calls[k].script = DistributeScript =>
                  Len(calls[k].params) = Len(arg.hosts) - 1

(***************************************************************************)
(* Further properties of the ledger                                        *)
(***************************************************************************)
\* C17 (create_pending_op is best-effort): whatever filesystem call fails
\* while the record is persisted, create_pending_op does not raise, and the
\* entry of a pending_op scope goes on to the body of the scope.
C17_CreateNeverRaises ==
    [][\A p \in Procs, c \in ClusterIds, t \in Tags :
          /\ (create_open(p, c, t, "create_w") \/ create_open(p, c, t, "enter_w")
               \/ create_write(p))
                 => outcome'[p] # "raised"
          /\ create_open(p, c, t, "enter_w") => pc'[p] \in {"enter_w", "body"}]_vars

\* C18 (list_pending_ops heals bad records): list_pending_ops never raises
\* on what it reads; a lock file whose content is corrupt or is not a record
\* is deleted and not reported, and the call goes on to the other files.
C18_BadRecordsPruned ==
    [][\A p \in Procs :
          (list_act(p) /\ scan.info.kind \in {"corrupt", "not_a_dict"}) =>
              /\ scan'.phase = "read"
              /\ outcome'[p] # "raised"
              /\ files'[scan.cur] = Absent
              /\ scan'.ops = scan.ops]_vars

\* C19 (remove_pending_op of a missing record): remove_pending_op returns
\* normally; when the ledger holds no record for (c, t), also when the
\* pending directory does not exist, it leaves the ledger as it was; and a
\* second call right after the first changes nothing more.
C19_RemoveMissingIsNoop ==
    [][\A p \in Procs, c \in ClusterIds, t \in Tags :
          remove_call(p, c, t) =>
              /\ outcome'[p] = "returned"
              /\ files[_lock_path(c, t)] = Absent =>
                    (files' = files /\ dirExists' = dirExists)
              /\ remove_pending_op(files', c, t, TRUE) = files']_vars

\* remove_pending_op has returned while the pending directory has never
\* been created
C19_Witness ==
    /\ ~dirExists /\ scan = NoScan
    /\ \E p \in Procs : pc[p] = "idle" /\ outcome[p] = "returned"

\* C20 (one file per tag): for one cluster id and two different operation
\* tags, no step of create_pending_op, remove_pending_op or a pending_op
\* scope for the first tag creates, overwrites or deletes the record file of
\* the second, however the calls for the two tags are interleaved.
C20_TagsDoNotCollide ==
    [][\A p \in Procs, c \in ClusterIds, t1 \in Tags, t2 \in Tags :
          (/\ t1 # t2
           /\ \/ create_open(p, c, t1, "create_w")
              \/ create_open(p, c, t1, "enter_w")
              \/ create_write(p) /\ key[p] = Key(c, t1)
              \/ remove_call(p, c, t1)
              \/ \E kind \in ExitKinds : scope_exit(p, kind) /\ key[p] = Key(c, t1))
              => files'[_lock_path(c, t2)] = files[_lock_path(c, t2)]]_vars

\* two processes hold the records of two tags of the same cluster at once
C20_Witness ==
    \E c \in ClusterIds, t1 \in Tags, t2 \in Tags :
        /\ t1 # t2
        /\ files[_lock_path(c, t1)].kind = "rec" /\ files[_lock_path(c, t1)].pid = 1
        /\ files[_lock_path(c, t2)].kind = "rec" /\ files[_lock_path(c, t2)].pid = 2
        /\ pc[1] = "body" /\ pc[2] = "body"

(***************************************************************************)
(* run_with_sudo_fallback (sparkrun/orchestration/sudo.py)                 *)
(*                                                                         *)
(* A dict {host: result} is the set of its values: at most one result per  *)
(* host. The parallel executor attempts every host of host_list and        *)
(* returns when all attempts are over; under dry_run it attempts nothing   *)
(* and reports success for every host. run_remote_sudo_script runs the     *)
(* fallback script on one host and returns its result.                     *)
(***************************************************************************)
HostsOf(map) == { e.host : e \in map }

Get(map, h) == CHOOSE e \in map : e.host = h

\* result_map[h] = r, with the success flag dropped when r is a failure
result_map_put_success_only(map, h, r) ==
    IF r.success THEN { e \in map : e.host # h } \cup {r} ELSE map

\* result_map[h] = r
result_map_put(map, h, r) == { e \in map : e.host # h } \cup {r}

\* the parallel call returns when no attempt is pending or running
phase1_over(att) == \A i \in 1..Len(att) : att[i] \in {"ok", "failed", "skipped"}

\* what run_remote_scripts_parallel returns for the attempts made
parallel_results(host_list, dry_run, att) ==
    LET rs == run_remote_scripts_parallel(host_list, dry_run,
                                          [i \in 1..Len(att) |-> att[i] = "ok"])
    IN  [i \in 1..Len(rs) |-> [host |-> rs[i].host, success |-> rs[i].success,
                               phase |-> "parallel"]]

\* result_map after the loop over parallel_results
RECURSIVE successes(_)
successes(rs) ==
    IF rs = <<>> THEN {}
    ELSE (IF Head(rs).success THEN {Head(rs)} ELSE {}) \cup successes(Tail(rs))

\* the guard of phase 2, without the test of the password
fallback_wanted_without_password(fhosts, dry_run, sudo_password) ==
    fhosts # <<>> /\ ~dry_run

\* if failed_hosts and not dry_run and sudo_password is not None
fallback_wanted(fhosts, dry_run, sudo_password) ==
    fhosts # <<>> /\ ~dry_run /\ sudo_password # "None"

\* fallbacks handed to a pool: one may start while another runs
fallback_may_start_pooled(running) == TRUE

\* for h in failed_hosts: r = run_remote_sudo_script(h, ...): the call on one
\* host returns before the loop goes on to the next
fallback_may_start(running) == running = {}

\* the list returned when the fallback results are not looked at
still_failed_of_phase1(fhosts, map) == fhosts

\* [h for h in failed_hosts if h not in result_map or not result_map[h].success]
still_failed_of(fhosts, map) ==
    LET keep(h) == h \notin HostsOf(map) \/ ~Get(map, h).success
    IN  SelectSeq(fhosts, keep)

SudoCall(host_list, dry_run, sudo_password) ==
    /\ spc = "idle"
    /\ spc' = "phase1"
    /\ sarg' = [host_list |-> host_list, dry_run |-> dry_run,
                sudo_password |-> sudo_password]
    /\ attempt' = [i \in 1..Len(host_list) |-> IF dry_run THEN "skipped" ELSE "pending"]
    /\ UNCHANGED <<result_map, phase1_failed, next_fb, in_flight, fb_runs, last,
                   still_failed, ledgerVars, seqVars, distVars,
                   cacheVars>>

\* the executor starts the script on one more host
Phase1Start(i) ==
    /\ spc = "phase1"
    /\ i \in 1..Len(attempt)
    /\ attempt[i] = "pending"
    /\ attempt' = [attempt EXCEPT ![i] = "running"]
    /\ UNCHANGED <<spc, sarg, result_map, phase1_failed, next_fb, in_flight,
                   fb_runs, last, still_failed, ledgerVars, seqVars, distVars,
                   cacheVars>>

\* the script ends on one host
Phase1End(i, ok) ==
    /\ spc = "phase1"
    /\ i \in 1..Len(attempt)
    /\ attempt[i] = "running"
    /\ attempt' = [attempt EXCEPT ![i] = IF ok THEN "ok" ELSE "failed"]
    /\ UNCHANGED <<spc, sarg, result_map, phase1_failed, next_fb, in_flight,
                   fb_runs, last, still_failed, ledgerVars, seqVars, distVars,
                   cacheVars>>

\* the parallel call returns; the results are partitioned (lines 47-54) and
\* the guard of phase 2 is evaluated (line 57)
Phase1Return ==
    /\ spc = "phase1"
    /\ phase1_over(attempt)
    /\ LET rs == parallel_results(sarg.host_list, sarg.dry_run, attempt)
       IN  /\ result_map' = successes(rs)
           /\ phase1_failed' = failed_hosts(rs)
           /\ last' = { rs[i] : i \in 1..Len(rs) }
           /\ spc' = IF fallback_wanted(failed_hosts(rs), sarg.dry_run,
                                        sarg.sudo_password)
                     THEN "fallback" ELSE "return"
    /\ next_fb' = 1
    /\ UNCHANGED <<sarg, attempt, in_flight, fb_runs, still_failed,
                   ledgerVars, seqVars, distVars, cacheVars>>

\* run_remote_sudo_script is called for the next host of failed_hosts
FallbackStart ==
    /\ spc = "fallback"
    /\ next_fb <= Len(phase1_failed)
    /\ fallback_may_start(in_flight)
    /\ in_flight' = in_flight \cup {phase1_failed[next_fb]}
    /\ fb_runs' = fb_runs \cup {[host |-> phase1_failed[next_fb], run |-> next_fb]}
    /\ next_fb' = next_fb + 1
    /\ UNCHANGED <<spc, sarg, attempt, result_map, phase1_failed, last,
                   still_failed, ledgerVars, seqVars, distVars,
                   cacheVars>>

\* it returns: result_map[h] = r
FallbackEnd(h, ok) ==
    /\ spc = "fallback"
    /\ h \in in_flight
    /\ LET r == [host |-> h, success |-> ok, phase |-> "sudo"]
       IN  /\ result_map' = result_map_put(result_map, h, r)
           /\ last' = { e \in last : e.host # h } \cup {r}
    /\ in_flight' = in_flight \ {h}
    /\ UNCHANGED <<spc, sarg, attempt, phase1_failed, next_fb, fb_runs,
                   still_failed, ledgerVars, seqVars, distVars,
                   cacheVars>>

\* return result_map, still_failed
SudoReturn ==
    /\ \/ spc = "return"
       \/ spc = "fallback" /\ next_fb > Len(phase1_failed) /\ in_flight = {}
    /\ still_failed' = still_failed_of(phase1_failed, result_map)
    /\ spc' = "done"
    /\ UNCHANGED <<sarg, attempt, result_map, phase1_failed, next_fb, in_flight,
                   fb_runs, last, ledgerVars, seqVars, distVars, cacheVars>>

NextSudo ==
    \/ \E host_list \in HostLists, dry_run \in BOOLEAN, sudo_password \in {"None", "", "pw"} :
          SudoCall(host_list, dry_run, sudo_password)
    \/ \E i \in 1..MaxHosts : Phase1Start(i)
    \/ \E i \in 1..MaxHosts, ok \in BOOLEAN : Phase1End(i, ok)
    \/ Phase1Return
    \/ FallbackStart
    \/ \E h \in MgmtNames, ok \in BOOLEAN : FallbackEnd(h, ok)
    \/ SudoReturn

InitSudoOnly ==
    /\ InitLedger
    /\ faulty = FALSE
    /\ uid = [p \in Procs |-> "alice"]
    /\ InitDist
    /\ InitHub

SpecSudo == InitSudoOnly /\ [][NextSudo]_vars

\* the hosts of host_list whose phase-1 attempt ended in the given state
Phase1Hosts(state) ==
    { sarg.host_list[i] : i \in { j \in 1..Len(attempt) : attempt[j] = state } }

FallbackRunsOn(h) == { e \in fb_runs : e.host = h }

\* C21: the fallback is run only with a password and without dry_run, only
\* on hosts whose phase-1 result was unsuccessful and at most once on each;
\* when the call returns with a password and without dry_run, it was run on
\* every such host; with dry_run or without a password it is never run.
C21_FallbackOncePerFailedHost ==
    /\ \A e \in fb_runs :
          /\ ~sarg.dry_run
          /\ sarg.sudo_password # "None"
          /\ e.host \in Phase1Hosts("failed")
          /\ e.host \notin Phase1Hosts("ok")
    /\ \A h \in MgmtNames : Cardinality(FallbackRunsOn(h)) <= 1
    /\ (spc = "done" /\ ~sarg.dry_run /\ sarg.sudo_password # "None")
          => \A h \in Phase1Hosts("failed") : Cardinality(FallbackRunsOn(h)) = 1
    /\ (sarg.dry_run \/ sarg.sudo_password = "None") => fb_runs = {}

\* a returned call that ran the fallback on one host and not on another,
\* which had succeeded in phase 1
C21_Witness ==
    /\ spc = "done"
    /\ fb_runs # {}
    /\ Phase1Hosts("ok") # {}

\* C22: a fallback execution starts only when no phase-1 attempt is pending
\* or running, and at most one fallback execution is in flight at any time.
C22_FallbackSequentialAfterPhase1 ==
    /\ (fb_runs # {} \/ in_flight # {})
          => \A i \in 1..Len(attempt) : attempt[i] \notin {"pending", "running"}
    /\ Cardinality(in_flight) <= 1

\* one fallback is running while another host waits for its turn
C22_Witness ==
    /\ in_flight # {}
    /\ next_fb <= Len(phase1_failed)

\* C23: the returned still-failed list holds exactly the hosts of host_list
\* whose last attempt was unsuccessful.
C23_StillFailedIsLastAttemptFailed ==
    spc = "done" =>
        /\ Range(still_failed) \subseteq Range(sarg.host_list)
        /\ Range(still_failed) = { e.host : e \in { x \in last : ~x.success } }

\* a returned call in which one host was recovered by the fallback and
\* another was not
C23_Witness ==
    /\ spc = "done"
    /\ still_failed # <<>>
    /\ \E e \in last : e.phase = "sudo" /\ e.success

\* C24 as stated: the returned map has one entry for every host of
\* host_list, the last result obtained for it.
C24_EveryHostHasEntry ==
    spc = "done" =>
        /\ HostsOf(result_map) = Range(sarg.host_list)
        /\ result_map = last

\* C24: the returned map holds one entry for every host that succeeded in
\* phase 1 or on which the fallback was run, that entry being the last
\* result obtained for the host; a host that failed phase 1 and got no
\* fallback has no entry.
C24_AccumulatedResults ==
    spc = "done" =>
        /\ result_map = { e \in last : e.success \/ e.phase = "sudo" }
        /\ \A h \in HostsOf(result_map) :
              Cardinality({ e \in result_map : e.host = h }) = 1

\* a returned call whose map holds a failed fallback result
C24_Witness ==
    /\ spc = "done"
    /\ \E e \in result_map : e.phase = "sudo" /\ ~e.success

(***************************************************************************)
(* Cache checks (sparkrun/models/download.py)                              *)
(***************************************************************************)
\* the characters of the names above, in code-point order
CodePoints == <<"\n", "-", ".", "1", "2", "Q", "a", "b", "c", "d", "e", "f", "g",
                "h", "i", "j", "l", "m", "n", "o", "p", "q", "r", "s", "t", "u", "v">>

\* a < b for two str
RECURSIVE str_less(_, _)
str_less(a, b) ==
    IF b = <<>> THEN FALSE
    ELSE IF a = <<>> THEN TRUE
    ELSE IF Head(a) = Head(b) THEN str_less(Tail(a), Tail(b))
    ELSE LET ord(ch) == CHOOSE i \in 1..Len(CodePoints) : CodePoints[i] = ch
         IN  ord(Head(a)) < ord(Head(b))

\* a < b for two Path: their parts are compared in turn
RECURSIVE path_less(_, _)
path_less(a, b) ==
    IF b = <<>> THEN FALSE
    ELSE IF a = <<>> THEN TRUE
    ELSE IF Head(a) = Head(b) THEN path_less(Tail(a), Tail(b))
    ELSE str_less(Head(a), Head(b))

\* str.strip() of the text of a pointer file
RECURSIVE strip(_)
strip(text) ==
    IF text = <<>> THEN <<>>
    ELSE IF Head(text) = Newline THEN strip(Tail(text))
    ELSE IF text[Len(text)] = Newline THEN strip(SubSeq(text, 1, Len(text) - 1))
    ELSE text

endswith(str, suffix) ==
    /\ Len(suffix) <= Len(str)
    /\ SubSeq(str, Len(str) - Len(suffix) + 1, Len(str)) = suffix

DotGguf == <<".", "g", "g", "u", "f">>

\* Path.name
name(path) == path[Len(path)]

\* the files below model_cache, as paths from model_cache
cache_files ==
    IF ~has_snapshots THEN {}
    ELSE UNION { { <<<<"s", "n", "a", "p", "s", "h", "o", "t", "s">>, h>> \o f :
                   f \in snaps[h].files } :
                 h \in { d \in SnapNames : snaps[d].is_dir } }

\* a file name matches the pattern "*<quant>*.gguf"
fnmatch_quant(fname, quant) ==
    /\ endswith(fname, DotGguf)
    /\ Contains(SubSeq(fname, 1, Len(fname) - Len(DotGguf)), quant)

\* model_cache.glob("**/*<quant>*.gguf"), or glob("**/*.gguf") without quant
glob_gguf(quant) ==
    IF quant # <<>>
    THEN { f \in cache_files : fnmatch_quant(name(f), quant) }
    ELSE { f \in cache_files : endswith(name(f), DotGguf) }

\* [f for f in all_gguf if q_lower in f.name.lower()]
filter_lower(quant) ==
    { f \in glob_gguf(<<>>) : Contains(lower(name(f)), lower(quant)) }

\* matched, with the retry left out
gguf_matched_case_sensitive(model_id) ==
    glob_gguf(parse_gguf_model_spec(model_id).quant)

\* matched: the files of the glob, and when there are none and a quant is
\* given, those of the case-insensitive filter
gguf_matched(model_id) ==
    LET quant == parse_gguf_model_spec(model_id).quant
    IN  IF glob_gguf(quant) # {} THEN glob_gguf(quant)
        ELSE IF quant # <<>> THEN filter_lower(quant)
        ELSE {}

\* the first file as glob happens to list them
listed_first(matched, listed) == listed

\* sorted(...)[0]
sorted_first(matched, listed) ==
    CHOOSE f \in matched : \A g \in matched : f = g \/ path_less(f, g)

\* resolve_gguf_path; listed is the file glob lists first
resolve_gguf_path(model_id, listed) ==
    IF hub_entry(parse_gguf_model_spec(model_id).repo_id) \notin hub THEN None
    ELSE IF gguf_matched(model_id) = {} THEN None
    ELSE [found |-> TRUE, path |-> sorted_first(gguf_matched(model_id), listed)]

\* any name counts as a weight file
is_weight_file_any(fname) == TRUE

\* the name matches one of weight_patterns
is_weight_file(fname) ==
    \E suffix \in { <<".", "s", "a", "f", "e", "t", "e", "n", "s", "o", "r", "s">>,
                      <<".", "b", "i", "n">>, <<".", "p", "t">>,
                      <<".", "g", "g", "u", "f">> } :
        endswith(fname, suffix)

\* any(snapshot_dir.glob(pattern)) for some pattern: a file of the
\* snapshot directory itself, not of a directory below it
has_weights(h) == \E f \in snaps[h].files : Len(f) = 1 /\ is_weight_file(name(f))

\* candidate.is_dir() for candidate = snapshots / dname
is_snapshot_dir(dname) == dname \in SnapNames /\ snaps[dname].is_dir

\* _snapshot_dirs_for_revision
_snapshot_dirs_for_revision(revision) ==
    LET by_ref == IF /\ revision \in RefNames
                     /\ refs[revision].exists
                     /\ is_snapshot_dir(strip(refs[revision].text))
                  THEN {strip(refs[revision].text)} ELSE {}
        direct == IF is_snapshot_dir(revision) THEN {revision} ELSE {}
    IN  by_ref \cup direct

\* every snapshot directory, whatever 'main' resolves to
snapshot_dirs_all(revision_given, revision) ==
    { d \in SnapNames : snaps[d].is_dir }

\* snapshot_dirs of is_model_cached
snapshot_dirs(revision_given, revision) ==
    IF revision_given THEN _snapshot_dirs_for_revision(revision)
    ELSE IF _snapshot_dirs_for_revision(Main) # {} THEN _snapshot_dirs_for_revision(Main)
    ELSE { d \in SnapNames : snaps[d].is_dir }

is_model_cached(model_id, revision_given, revision) ==
    IF is_gguf_model(model_id) THEN resolve_gguf_path(model_id, <<>>).found
    ELSE IF hub_entry(model_id) \notin hub THEN FALSE
    ELSE IF ~has_snapshots THEN FALSE
    ELSE \E h \in snapshot_dirs(revision_given, revision) : has_weights(h)

IsModelCached(model_id, revision_given, revision) ==
    /\ call = NoCall
    /\ call' = [fn |-> "is_model_cached", model_id |-> model_id,
                revision_given |-> revision_given, revision |-> revision]
    /\ ret' = [found |-> is_model_cached(model_id, revision_given, revision),
               path |-> <<>>]
    /\ UNCHANGED <<hub, has_snapshots, refs, snaps, dlpc, dlarg, cached, fetches,
                   dlret, ledgerVars, seqVars, distVars, sudoVars>>

\* a first call, or the same call once more; glob may list the files in
\* any order
ResolveGgufPath(model_id) ==
    /\ call = NoCall \/ (call.fn = "resolve_gguf_path" /\ call.model_id = model_id)
    /\ call' = [fn |-> "resolve_gguf_path", model_id |-> model_id,
                revision_given |-> FALSE, revision |-> <<>>]
    /\ \E listed \in gguf_matched(model_id) \cup {<<>>} :
          ret' = resolve_gguf_path(model_id, listed)
    /\ UNCHANGED <<hub, has_snapshots, refs, snaps, dlpc, dlarg, cached, fetches,
                   dlret, ledgerVars, seqVars, distVars, sudoVars>>

\* the position after the pre-check when a cached model is not fetched again
after_precheck_trusting_cache(is_cached) == IF is_cached THEN "done" ELSE "fetch"

\* the position after the pre-check: cached is only used to choose the log
\* message, _snapshot_download is called either way
after_precheck(is_cached) == "fetch"

\* _snapshot_download: 0 when snapshot_download returns, 1 when it raises
\* an Exception, which is caught
_snapshot_download(fetch_outcome) ==
    [rc |-> IF fetch_outcome = "completes" THEN 0 ELSE 1, raised |-> FALSE]

DownloadModel(model_id, dry_run, revision_given, revision) ==
    /\ dlpc = "idle"
    /\ dlarg' = [model_id |-> model_id, dry_run |-> dry_run,
                 revision_given |-> revision_given, revision |-> revision]
    /\ dlpc' = IF dry_run THEN "done" ELSE "precheck"
    /\ dlret' = [rc |-> 0, raised |-> FALSE]
    /\ UNCHANGED <<hub, has_snapshots, refs, snaps, call, ret, cached, fetches,
                   ledgerVars, seqVars, distVars, sudoVars>>

\* cached = is_model_cached(...), or resolve_gguf_path(...) is not None
DownloadPrecheck ==
    /\ dlpc = "precheck"
    /\ LET is_cached ==
             IF is_gguf_model(dlarg.model_id)
             THEN resolve_gguf_path(dlarg.model_id, <<>>).found
             ELSE is_model_cached(dlarg.model_id, dlarg.revision_given, dlarg.revision)
       IN  /\ cached' = is_cached
           /\ dlpc' = after_precheck(is_cached)
    /\ UNCHANGED <<hub, has_snapshots, refs, snaps, call, ret, dlarg, fetches,
                   dlret, ledgerVars, seqVars, distVars, sudoVars>>

\* return _snapshot_download(...)
DownloadFetch(fetch_outcome) ==
    /\ dlpc = "fetch"
    /\ LET cs == download_model_fetch(dlarg.model_id, dlarg.dry_run)
       IN  fetches' = fetches \o [i \in 1..Len(cs) |->
                                     [call |-> cs[i], outcome |-> fetch_outcome]]
    /\ dlret' = _snapshot_download(fetch_outcome)
    /\ dlpc' = "done"
    /\ UNCHANGED <<hub, has_snapshots, refs, snaps, call, ret, dlarg, cached,
                   ledgerVars, seqVars, distVars, sudoVars>>

NextCache ==
    \/ \E model_id \in ModelIds :
        \/ IsModelCached(model_id, FALSE, <<>>)
        \/ \E revision \in {Main, V1, H1, H2} : IsModelCached(model_id, TRUE, revision)
        \/ ResolveGgufPath(model_id)

NextDownload ==
    \/ \E model_id \in ModelIds, dry_run \in BOOLEAN :
        \/ DownloadModel(model_id, dry_run, FALSE, <<>>)
        \/ DownloadModel(model_id, dry_run, TRUE, V1)
    \/ DownloadPrecheck
    \/ \E fetch_outcome \in {"completes", "raises"} : DownloadFetch(fetch_outcome)

InitCacheOnly ==
    /\ InitLedger
    /\ faulty = FALSE
    /\ uid = [p \in Procs |-> "alice"]
    /\ InitDist
    /\ InitSudo
    /\ InitCache

SpecCache == InitCacheOnly /\ [][NextCache]_vars

\* download_model on the cache entries that have at most the snapshot h1
\* and the pointer refs/main
InitDownloadOnly ==
    /\ InitCacheOnly
    /\ snaps[H2] = NoDir
    /\ refs[V1] = NoRef

SpecDownload == InitDownloadOnly /\ [][NextDownload]_vars

\* C25: a download_model call without dry_run that has returned made exactly
\* one snapshot_download call, whatever the pre-check found, and returned 0
\* if that call completed and 1 if it raised; no exception left the call.
C25_FetchOnceEvenIfCached ==
    /\ Len(fetches) <= 1
    /\ (dlpc = "done" /\ ~dlarg.dry_run) =>
          /\ Len(fetches) = 1
          /\ ~dlret.raised
          /\ dlret.rc = IF fetches[1].outcome = "completes" THEN 0 ELSE 1

\* a GGUF model found in the cache by the pre-check, whose fetch then raised
C25_Witness ==
    /\ dlpc = "done"
    /\ ~dlarg.dry_run
    /\ cached
    /\ is_gguf_model(dlarg.model_id)
    /\ Len(fetches) = 1
    /\ fetches[1].outcome = "raises"

\* the weight files among the files a snapshot may hold
WeightFiles == { <<ModelSafetensors>>, <<LowerGguf>>, <<UpperGguf>> }

\* snapshots/<h> is a directory with a weight file in it
HoldsWeights(h) == snaps[h].is_dir /\ snaps[h].files \cap WeightFiles # {}

\* the snapshot directories refs/<n> points at
PointedAt(n) ==
    { h \in SnapNames : /\ refs[n].exists
                        /\ refs[n].text \in {h, h \o <<Newline>>}
                        /\ snaps[h].is_dir }

\* the last call was is_model_cached for a plain model id
PlainCheck(revision_given) ==
    /\ call.fn = "is_model_cached"
    /\ call.model_id = <<"o", "/", "m">>
    /\ call.revision_given = revision_given

\* the entry directory of each model id
EntryOf(model_id) ==
    IF model_id = <<"o", "/", "G", "g", "u", "f">>
    THEN <<"m", "o", "d", "e", "l", "s", "-", "-", "o", "-", "-", "G", "g", "u", "f">>
    ELSE <<"m", "o", "d", "e", "l", "s", "-", "-", "o", "-", "-", "m">>

\* C26: without a revision, a plain model whose refs/main points at the
\* snapshot h is cached when snapshots/h holds a weight file and not cached
\* when it holds metadata files only; it is not cached when the entry or its
\* snapshots directory is missing.
C26_CompleteMeansWeights ==
    PlainCheck(FALSE) =>
        /\ \A h \in SnapNames :
              (EntryOf(call.model_id) \in hub /\ PointedAt(Main) = {h}) =>
                  /\ HoldsWeights(h) => ret.found
                  /\ snaps[h].files \subseteq {<<ConfigJson>>} => ~ret.found
        /\ (EntryOf(call.model_id) \notin hub \/ ~has_snapshots) => ~ret.found

\* refs/main holds "h2\n", snapshots/h2 holds a weight file and the model is
\* reported cached, while snapshots/h1 holds config.json only
C26_Witness ==
    /\ PlainCheck(FALSE)
    /\ refs[Main].text = H2 \o <<Newline>>
    /\ HoldsWeights(H2)
    /\ snaps[H1] = Dir({<<ConfigJson>>})
    /\ ret.found

\* C27: with an explicit revision r, is_model_cached is false for every model
\* id when r resolves to no snapshot directory or when no snapshot directory
\* it resolves to holds a weight file.
C27_RevisionStrict ==
    (call.fn = "is_model_cached" /\ call.revision_given) =>
        LET resolved == IF call.revision \in RefNames THEN PointedAt(call.revision) ELSE {}
            direct == { h \in SnapNames : h = call.revision /\ snaps[h].is_dir }
        IN  (\A h \in resolved \cup direct : ~HoldsWeights(h)) => ~ret.found

\* C28: without a revision, a plain model whose 'main' resolves to snapshot
\* directories is cached iff one of those holds a weight file, whatever the
\* other snapshot directories hold; when 'main' resolves to none, it is
\* cached iff some snapshot directory holds a weight file.
C28_MainThenAnySnapshot ==
    (PlainCheck(FALSE) /\ EntryOf(call.model_id) \in hub /\ has_snapshots) =>
        IF PointedAt(Main) # {}
        THEN ret.found <=> \E h \in PointedAt(Main) : HoldsWeights(h)
        ELSE ret.found <=> \E h \in SnapNames : HoldsWeights(h)

\* 'main' resolves to h1, which holds no weight file; h2 holds one and the
\* model is reported not cached
C28_Witness ==
    /\ PlainCheck(FALSE)
    /\ PointedAt(Main) = {H1}
    /\ ~HoldsWeights(H1)
    /\ HoldsWeights(H2)
    /\ ~ret.found

\* the quant tag of each model id
QuantOf(model_id) == IF model_id = <<"o", "/", "m", ":", "Q">> THEN <<"Q">> ELSE <<>>

\* the .gguf files of the entry of model_id
GgufFiles(model_id) ==
    IF EntryOf(model_id) \in hub
    THEN { f \in cache_files : endswith(name(f), DotGguf) }
    ELSE {}

\* those whose name contains the quant tag, letter case ignored
MatchingIgnoringCase(model_id) ==
    { f \in GgufFiles(model_id) : Contains(lower(name(f)), lower(QuantOf(model_id))) }

\* those whose name contains the quant tag in the letter case given
MatchingExactCase(model_id) ==
    { f \in GgufFiles(model_id) :
        Contains(SubSeq(name(f), 1, Len(name(f)) - Len(DotGguf)), QuantOf(model_id)) }

\* the files resolve_gguf_path chooses from
Candidates(model_id) ==
    IF MatchingExactCase(model_id) # {} THEN MatchingExactCase(model_id)
    ELSE MatchingIgnoringCase(model_id)

\* C29 as stated: the file returned has the smallest filename of all the
\* .gguf files that match the model spec.
C29_SmallestFilename ==
    (call.fn = "resolve_gguf_path" /\ ret.found) =>
        \A g \in MatchingIgnoringCase(call.model_id) :
            name(ret.path) = name(g) \/ str_less(name(ret.path), name(g))

\* C29: the file returned is the one with the smallest path, compared part
\* by part from the entry directory, among the files resolve_gguf_path
\* chooses from; the same call made again on the same cache returns the same.
C29_SmallestPathEveryTime ==
    [][ call'.fn = "resolve_gguf_path" =>
          /\ ret'.found =>
                /\ ret'.path \in Candidates(call'.model_id)
                /\ \A g \in Candidates(call'.model_id) :
                      ret'.path = g \/ path_less(ret'.path, g)
          /\ (call = call' /\ UNCHANGED <<hub, has_snapshots, refs, snaps>>) => ret' = ret
      ]_vars

\* two matching files in different snapshot directories: the one returned,
\* of the first directory, has the larger filename
C29_Witness ==
    /\ call.fn = "resolve_gguf_path"
    /\ ret.found
    /\ Cardinality(Candidates(call.model_id)) >= 2
    /\ \E g \in Candidates(call.model_id) :
          /\ g[2] # ret.path[2]
          /\ str_less(name(g), name(ret.path))

\* C30 as stated: a file is found exactly when a .gguf file of the entry
\* contains the quant tag, letter case ignored (any .gguf file without a
\* tag), and the file returned is chosen among all of these.
C30_AllCaseVariantsAreCandidates ==
    /\ (call.fn = "resolve_gguf_path"
            \/ (call.fn = "is_model_cached" /\ is_gguf_model(call.model_id)))
          => (ret.found <=> MatchingIgnoringCase(call.model_id) # {})
    /\ (call.fn = "resolve_gguf_path" /\ ret.found)
          => \A g \in MatchingIgnoringCase(call.model_id) :
                ret.path = g \/ path_less(ret.path, g)

\* C30: a file is found exactly when a .gguf file of the entry contains the
\* quant tag, letter case ignored (any .gguf file without a tag); the file
\* returned is one that contains the tag in the letter case given when
\* there is such a file, and one that contains it in another case otherwise.
C30_CaseInsensitiveWhenNoExactMatch ==
    /\ (call.fn = "resolve_gguf_path"
            \/ (call.fn = "is_model_cached" /\ is_gguf_model(call.model_id)))
          => (ret.found <=> MatchingIgnoringCase(call.model_id) # {})
    /\ (call.fn = "resolve_gguf_path" /\ ret.found)
          => /\ ret.path \in MatchingIgnoringCase(call.model_id)
             /\ MatchingExactCase(call.model_id) # {}
                   => ret.path \in MatchingExactCase(call.model_id)

\* the only .gguf file of the entry has the tag in lower case and is found
\* for the tag in upper case
C30_Witness ==
    /\ call.fn = "resolve_gguf_path"
    /\ QuantOf(call.model_id) # <<>>
    /\ MatchingExactCase(call.model_id) = {}
    /\ ret.found
    /\ name(ret.path) = LowerGguf

(***************************************************************************)
(* The identity resolvers of download.py on every model id of at most      *)
(* MaxIdLen characters                                                     *)
(***************************************************************************)
Ids == UNION { [1..n -> {"/", ":", "g", "G", "u", "f"}] : n \in 0..MaxIdLen }

\* the path below <cache>/hub, with the quant variant kept in it
model_cache_path_with_quant(model_id) == hub_entry(model_id)

\* model_cache_path, as the path below <cache>/hub
model_cache_path(model_id) == hub_entry(parse_gguf_model_spec(model_id).repo_id)

ParseGgufModelSpec(model_id) ==
    /\ call = NoCall
    /\ call' = [fn |-> "parse_gguf_model_spec", model_id |-> model_id,
                revision_given |-> FALSE, revision |-> <<>>]
    /\ ret' = parse_gguf_model_spec(model_id)
    /\ UNCHANGED <<hub, has_snapshots, refs, snaps, dlpc, dlarg, cached, fetches,
                   dlret, ledgerVars, seqVars, distVars, sudoVars>>

IsGgufModel(model_id) ==
    /\ call = NoCall
    /\ call' = [fn |-> "is_gguf_model", model_id |-> model_id,
                revision_given |-> FALSE, revision |-> <<>>]
    /\ ret' = [found |-> is_gguf_model(model_id), path |-> <<>>]
    /\ UNCHANGED <<hub, has_snapshots, refs, snaps, dlpc, dlarg, cached, fetches,
                   dlret, ledgerVars, seqVars, distVars, sudoVars>>

ModelCachePath(model_id) ==
    /\ call = NoCall
    /\ call' = [fn |-> "model_cache_path", model_id |-> model_id,
                revision_given |-> FALSE, revision |-> <<>>]
    /\ ret' = [found |-> TRUE, path |-> model_cache_path(model_id)]
    /\ UNCHANGED <<hub, has_snapshots, refs, snaps, dlpc, dlarg, cached, fetches,
                   dlret, ledgerVars, seqVars, distVars, sudoVars>>

NextIds ==
    \E model_id \in Ids :
        \/ ParseGgufModelSpec(model_id)
        \/ IsGgufModel(model_id)
        \/ ModelCachePath(model_id)

InitIdsOnly ==
    /\ InitLedger
    /\ faulty = FALSE
    /\ uid = [p \in Procs |-> "alice"]
    /\ InitDist
    /\ InitHub

SpecIds == InitIdsOnly /\ [][NextIds]_vars

\* C31: parse_gguf_model_spec returns (r, None) for an id r without a colon;
\* for an id with a colon it returns two parts that give r back when joined
\* with ':', the second of them without a colon.
C31_SplitOnLastColon ==
    call.fn = "parse_gguf_model_spec" =>
        IF ":" \notin Range(call.model_id)
        THEN ret = [repo_id |-> call.model_id, quant_given |-> FALSE, quant |-> <<>>]
        ELSE /\ ret.quant_given
             /\ ret.repo_id \o <<":">> \o ret.quant = call.model_id
             /\ ":" \notin Range(ret.quant)

\* an id with two colons, parsed into a repository id that keeps the first
C31_Witness ==
    /\ call.fn = "parse_gguf_model_spec"
    /\ ":" \in Range(ret.repo_id)
    /\ ret.quant # <<>>

\* C32: is_gguf_model is true iff the id contains a colon or contains
\* 'gguf' in any letter case.
C32_GgufIffQuantOrName ==
    call.fn = "is_gguf_model" =>
        (ret.found <=>
            \/ ":" \in Range(call.model_id)
            \/ \E i \in 1..(Len(call.model_id) - 3) :
                  /\ call.model_id[i] \in {"g", "G"}
                  /\ call.model_id[i + 1] \in {"g", "G"}
                  /\ call.model_id[i + 2] \in {"u", "U"}
                  /\ call.model_id[i + 3] \in {"f", "F"})

\* a colon-free id with 'Gguf' in it is a GGUF model
C32_Witness ==
    /\ call.fn = "is_gguf_model"
    /\ ":" \notin Range(call.model_id)
    /\ "G" \in Range(call.model_id)
    /\ ret.found

\* the text of model_id before its last colon (all of it without a colon)
RepoOf(model_id) ==
    IF ":" \notin Range(model_id) THEN model_id
    ELSE SubSeq(model_id, 1, (CHOOSE i \in 1..Len(model_id) :
                                /\ model_id[i] = ":"
                                /\ \A j \in (i + 1)..Len(model_id) : model_id[j] # ":") - 1)

\* the directory resolve_gguf_path, and is_model_cached, look for
Inspected(model_id) ==
    IF is_gguf_model(model_id) THEN hub_entry(parse_gguf_model_spec(model_id).repo_id)
    ELSE hub_entry(model_id)

\* C33 as stated: for every repository id and quant tag, the path of
\* 'repo:quant' is the path of 'repo', is 'models--' followed by repo with
\* '/' replaced by '--', and is the directory the cache checks inspect.
C33_CachePathStripsQuant ==
    call.fn = "model_cache_path" =>
        /\ ret.path = model_cache_path(RepoOf(call.model_id))
        /\ ret.path = <<"m", "o", "d", "e", "l", "s", "-", "-">>
                          \o replace(RepoOf(call.model_id), "/", <<"-", "-">>)
        /\ ret.path = Inspected(call.model_id)

\* C33: the same, the first equality for repository ids without a colon.
C33_CachePathStripsQuantOfPlainRepo ==
    call.fn = "model_cache_path" =>
        /\ ":" \notin Range(RepoOf(call.model_id))
              => ret.path = model_cache_path(RepoOf(call.model_id))
        /\ ret.path = <<"m", "o", "d", "e", "l", "s", "-", "-">>
                          \o replace(RepoOf(call.model_id), "/", <<"-", "-">>)
        /\ ret.path = Inspected(call.model_id)

\* the path of an id with a '/' in its repository id and a quant tag
C33_Witness ==
    /\ call.fn = "model_cache_path"
    /\ ":" \in Range(call.model_id)
    /\ ":" \notin Range(RepoOf(call.model_id))
    /\ "/" \in Range(RepoOf(call.model_id))
    /\ "-" \in Range(ret.path)

\* C34 (empty host list): distribute_model_from_local with no hosts, after a
\* successful local acquisition, returns the empty list and starts neither
\* the ownership-fix fan-out nor the rsync fan-out; the local acquisition is
\* the one step it has performed.
C34_EmptyHostsTrivial ==
    (fn = "distribute_model_from_local" /\ arg.hosts = <<>> /\ dpc # "download"
        /\ rc = 0) =>
        /\ dpc = "done"
        /\ failed = <<>>
        /\ FanOuts = {}
        /\ \A i \in 1..Len(calls) :
              calls[i].what \notin {"run_remote_scripts_parallel", "run_rsync_parallel"}
        /\ Len(log) = 1
        /\ log[1] = Event("call", "download_model", <<>>, TRUE)

\* a real (not dry-run) call with no hosts, after its download succeeded
C34_Witness ==
    /\ fn = "distribute_model_from_local" /\ arg.hosts = <<>> /\ dpc = "done"
    /\ rc = 0 /\ ~arg.dry_run
    /\ Ran("download_model")

(***************************************************************************)
(* pending_op scopes of live processes of one user, and list_pending_ops   *)
(* calls, on a working filesystem                                          *)
(***************************************************************************)
NextScopes ==
    \E p \in Procs :
        \/ \E c \in ClusterIds, t \in Tags : ScopeEnter(p, c, t)
        \/ CreateWrite(p)
        \/ \E kind \in ExitKinds : ScopeExit(p, kind)
        \/ ListStart(p)
        \/ ListRead(p)
        \/ ListAct(p)
        \/ ListReturn(p)

InitScopes == InitNominal /\ uid = [p \in Procs |-> "alice"]

SpecScopes == InitScopes /\ [][NextScopes]_vars

\* the processes inside the body of a pending_op scope for k
InScope(k) == { p \in Alive : pc[p] = "body" /\ key[p] = k }

\* the (cluster_id, operation) pairs a list_pending_ops call by q reports
\* when it runs from start to end in the current state
ReportedTo(q) ==
    { Key(files[f].cluster_id, files[f].operation) :
        f \in { g \in Paths : files[g].kind = "rec" /\ _is_pid_alive(q, files[g].pid) } }

\* C35 (visibility under overlapping scopes): whenever a live process is
\* inside a pending_op scope for (c, t), the lock file of (c, t) holds a
\* record and a list_pending_ops call of any live process reports an
\* operation for (c, t).
C35_VisibleWhileInScope ==
    \A k \in Keys :
        InScope(k) # {} =>
            /\ files[PathOf(k)].kind = "rec"
            /\ \A q \in Alive : k \in ReportedTo(q)

(***************************************************************************)
(* The ledger used by several processes of one user                        *)
(***************************************************************************)
SpecLedgerOneUser == InitScopes /\ [][NextLedger]_vars

\* the lock files that hold the record of a live process
LiveRecords == { f \in Paths : files[f].kind = "rec" /\ alive[files[f].pid] }

\* C36 (sweep/write race): a step of list_pending_ops never deletes a lock
\* file that holds the record of a live process, also when that record was
\* written between the read of the file and the step; such a file is
\* deleted by remove_pending_op alone.
C36_SweepSparesLiveRecord ==
    [][\A f \in LiveRecords :
          files'[f] = Absent => ~ \E p \in Procs : list_act(p)]_vars

(***************************************************************************)
(* The ledger with cluster ids and tags that hold "/" and "_"              *)
(***************************************************************************)
MixedClusterIds == { <<"a", "/", "b">>, <<"a", "_", "b">>, <<"a">> }
MixedTags == { <<"t">>, <<"b", "_", "t">> }
MixedKeys == [cluster_id : MixedClusterIds, operation : MixedTags]
MixedPaths == { PathOf(k) : k \in MixedKeys }

InitMixed ==
    /\ now = 0
    /\ faulty = FALSE
    /\ uid = [p \in Procs |-> "alice"]
    /\ alive = [p \in Procs |-> TRUE]
    /\ pc = [p \in Procs |-> "idle"]
    /\ key = [p \in Procs |-> NoKey]
    /\ pending = [p \in Procs |-> 0]
    /\ orphan = {}
    /\ outcome = [p \in Procs |-> "none"]
    /\ exitKind = [p \in Procs |-> "none"]
    /\ dirExists = FALSE
    /\ files = [f \in MixedPaths |-> Absent]
    /\ scan = NoScan
    /\ step = 0
    /\ who = [pid |-> 0, key |-> NoKey]
    /\ InitDist
    /\ InitHub

NextMixed ==
    \E p \in Procs :
        \/ \E c \in MixedClusterIds, t \in MixedTags :
            \/ CreatePendingOp(p, c, t)
            \/ RemovePendingOp(p, c, t)
            \/ ScopeEnter(p, c, t)
        \/ CreateWrite(p)
        \/ \E kind \in ExitKinds : ScopeExit(p, kind)

SpecMixed == InitMixed /\ [][NextMixed]_vars

\* a step of create_pending_op, remove_pending_op or a pending_op scope of
\* process p for (c, t)
StepFor(p, c, t) ==
    \/ create_open(p, c, t, "create_w")
    \/ create_open(p, c, t, "enter_w")
    \/ create_write(p) /\ key[p] = Key(c, t)
    \/ remove_call(p, c, t)
    \/ \E kind \in ExitKinds : scope_exit(p, kind) /\ key[p] = Key(c, t)

\* C37 (the file name is injective): two different (cluster id, tag) pairs,
\* with "/" or "_" in the ids or tags, have different lock files, so a lock
\* file that holds the record of one pair is overwritten or removed only by
\* a create_pending_op or remove_pending_op step for that same pair.
C37_FileNameInjective ==
    [][/\ \A k1 \in MixedKeys, k2 \in MixedKeys : k1 # k2 => PathOf(k1) # PathOf(k2)
       /\ \A f \in MixedPaths :
            (files[f].kind = "rec" /\ files'[f] # files[f]) =>
                \E p \in Procs : StepFor(p, files[f].cluster_id, files[f].operation)]_vars

\* the steps distribute_model_from_local has taken so far, in order
StepsTaken == [i \in 1..Len(log) |-> log[i].what]

\* C38 (step order of distribute_model_from_local): the steps taken are
\* always a prefix of: local acquisition, ownership-fix fan-out, rsync
\* fan-out - each at most once and in this order; the ownership fix has
\* been run on all hosts, and has returned, when the rsync is next; and the
\* rsync is started only after the local acquisition returned success.
C38_StepOrder ==
    fn = "distribute_model_from_local" =>
        /\ \E n \in 0..3 :
              StepsTaken = SubSeq(<<"download_model", "fix_permissions", "rsync">>, 1, n)
        /\ Len(log) = 0 <=> dpc = "download"
        /\ dpc = "fix" => Len(log) = 1
        /\ dpc = "rsync" => Len(log) = 2
        /\ Len(log) >= 2 => log[2].host = arg.hosts /\ log[1].ok /\ rc = 0
        /\ Len(log) = 3 => dpc = "done"

\* a call that went through the three steps although the ownership fix was
\* unsuccessful on a host and the rsync to a host failed
C38_Witness ==
    /\ fn = "distribute_model_from_local" /\ dpc = "done"
    /\ Len(log) = 3
    /\ fixFailed # {} /\ failed # <<>>

(***************************************************************************)
(* list_pending_ops called twice in a row by process 1, with nothing but   *)
(* the clock moving in between, on a ledger left by earlier calls: the      *)
(* files hold nothing, a write cut short by a crash, or the record of a    *)
(* process that is alive or has exited.  who.ops is what the first call    *)
(* returned.                                                               *)
(***************************************************************************)
LeftInFile(f) ==
    { Absent, Corrupt } \cup
    { Info(k.cluster_id, k.operation, p, 0) : k \in { j \in Keys : PathOf(j) = f }, p \in Procs }

InitTwice ==
    /\ now \in 0..MaxTime
    /\ faulty = FALSE
    /\ uid \in { u \in [Procs -> Users] : u[1] = "alice" }
    /\ alive \in { a \in [Procs -> BOOLEAN] : a[1] }
    /\ pc = [p \in Procs |-> IF alive[p] THEN "idle" ELSE "dead"]
    /\ key = [p \in Procs |-> NoKey]
    /\ pending = [p \in Procs |-> 0]
    /\ orphan = {}
    /\ outcome = [p \in Procs |-> "none"]
    /\ exitKind = [p \in Procs |-> "none"]
    /\ dirExists \in BOOLEAN
    /\ files \in { fs \in [Paths -> UNION { LeftInFile(f) : f \in Paths }] :
                     \A f \in Paths :
                        (fs[f] \in LeftInFile(f)) /\ (~dirExists => fs[f] = Absent) }
    /\ scan = NoScan
    /\ step = 0
    /\ who = [pid |-> 1, key |-> NoKey, ops |-> {}]
    /\ InitDist
    /\ InitHub

TwiceList ==
    /\ step \in {0, 2}
    /\ list_start(who.pid)
    /\ step' = IF scan'.phase = "done" THEN step + 2 ELSE step + 1
    /\ who' = IF step = 0 /\ scan'.phase = "done" THEN [who EXCEPT !.ops = scan'.ops] ELSE who
    /\ UNCHANGED <<distVars, hubVars>>

TwiceScan ==
    /\ step \in {1, 3}
    /\ (list_read(who.pid) \/ list_act(who.pid))
    /\ UNCHANGED <<seqVars, distVars, hubVars>>

TwiceListed ==
    /\ step \in {1, 3}
    /\ list_return(who.pid)
    /\ step' = step + 1
    /\ who' = IF step = 1 THEN [who EXCEPT !.ops = scan'.ops] ELSE who
    /\ UNCHANGED <<distVars, hubVars>>

TwiceTick == step = 2 /\ tick /\ UNCHANGED <<seqVars, distVars, hubVars>>

NextTwice ==
    \/ TwiceList
    \/ TwiceScan
    \/ TwiceListed
    \/ TwiceTick

SpecTwice == InitTwice /\ [][NextTwice]_vars

\* the records of a returned list, without the computed elapsed_seconds
RecordsOf(ops) ==
    { Info(o.cluster_id, o.operation, o.pid, o.started_at) : o \in ops }

\* C39 (list_pending_ops only prunes): no step of list_pending_ops creates
\* the pending directory or a file or changes the content of a file; a file
\* it deletes is corrupt or the record of a process that has exited; and a
\* second call right after the first deletes nothing and returns the same
\* records.
C39_ListOnlyPrunes ==
    [][/\ dirExists' = dirExists
       /\ \A f \in Paths :
            files'[f] # files[f] =>
                /\ files'[f] = Absent
                /\ files[f] = Corrupt \/ (files[f].kind = "rec" /\ ~alive[files[f].pid])
       /\ step >= 2 => files' = files
       /\ step' = 4 => RecordsOf(scan'.ops) = RecordsOf(who'.ops)]_vars

====
